---- MODULE Spec2Model ----
(***************************************************************************)
(* Context-preservation core of openclaw: the compaction safeguard         *)
(* (session_before_compact handler and its helpers) and the hybrid memory  *)
(* retrieval merge.                                                        *)
(*                                                                         *)
(* Text is modelled as a sequence of tokens (strings); concatenation is    *)
(* \o, the empty string is << >>, and String.includes(t) for a token t is  *)
(* membership of t in the sequence.                                        *)
(* Scores and weights of the retrieval engine are exact decimals: inputs   *)
(* and weights in tenths, merged scores in hundredths.                     *)
(***************************************************************************)
EXTENDS Integers, Sequences, FiniteSets, TLC

VARIABLES
    \* ---- hybrid merge (mergeHybridResults) ----
    mPc,        \* "off" | "input" | "merged"
    mVector,    \* params.vector
    mKeyword,   \* params.keyword
    mWeights,   \* <<vectorWeight, textWeight>> in tenths
    mDynamic,   \* params.dynamicThreshold: "true" | "false" | "omitted"
    mOut        \* the returned list

mergeVars == <<mPc, mVector, mKeyword, mWeights, mDynamic, mOut>>

VARIABLES
    \* ---- session_before_compact handler ----
    pc,             \* position of the handler
    req,            \* event.preparation, ctx.model and the session's runtime config
    apiKey,         \* what the await of getApiKey gave
    aborted,        \* event.signal.aborted
    trippedDuring,  \* the await the handler was suspended in when the signal tripped
    rt,             \* the knobs resolved from the runtime config
    messagesToSummarize,
    droppedSummary,
    preservedRecentMessages,
    attempt,
    currentInstructions,
    summary,
    calls,          \* the summarizeInStages invocations, in order of issue
    audits,         \* the auditSummaryQuality results, in order
    artifact        \* what the handler returned

handlerVars == <<pc, req, apiKey, aborted, trippedDuring, rt, messagesToSummarize,
                 droppedSummary, preservedRecentMessages, attempt,
                 currentInstructions, summary, calls, audits, artifact>>

VARIABLES
    \* ---- one call of an exported helper function ----
    fn,         \* "off", or the name of the function called
    fnArgs,     \* the arguments of the call
    fnResult    \* the values returned so far, in order

helperVars == <<fn, fnArgs, fnResult>>

vars == <<mergeVars, handlerVars, helperVars>>

\* no helper call is under way
HelperOff ==
    /\ fn = "off"
    /\ fnArgs = << >>
    /\ fnResult = << >>

----------------------------------------------------------------------------
(* Generic helpers *)

Range(s) == {s[i] : i \in 1..Len(s)}

SeqsUpTo(S, n) == UNION {[1..k -> S] : k \in 0..n}

RECURSIVE FilterSeq(_, _)
\* Array.prototype.filter for a sequence s and the set keep of kept indexes' values
FilterSeq(s, keep) ==
    IF s = << >> THEN << >>
    ELSE IF Head(s) \in keep THEN <<Head(s)>> \o FilterSeq(Tail(s), keep)
         ELSE FilterSeq(Tail(s), keep)

----------------------------------------------------------------------------
(* Compaction safeguard: constants and pure helpers *)

\* bounds of the handler's inputs
MaxMessages == 2

MAX_RECENT_TURNS_PRESERVE == 12
DEFAULT_RECENT_TURNS_PRESERVE == 3
MAX_QUALITY_GUARD_MAX_RETRIES == 3
DEFAULT_QUALITY_GUARD_MAX_RETRIES == 1
MAX_TOOL_FAILURES == 8
MAX_EXTRACTED_IDENTIFIERS == 12

FALLBACK_SUMMARY ==
    <<"Summary unavailable due to context limits. Older messages were truncated.">>

TURN_PREFIX_INSTRUCTIONS == <<"This summary covers the prefix of a split turn.">>

REQUIRED_SUMMARY_SECTIONS ==
    <<"## Decisions", "## Open TODOs", "## Constraints/Rules",
      "## Pending user asks", "## Exact identifiers">>

SPLIT_TURN_SEPARATOR == <<"---", "**Turn Context (split turn):**">>

\* an optional text: undefined, or a string
None == [some |-> FALSE, text |-> << >>]
Some(t) == [some |-> TRUE, text |-> t]

\* a ?? b
Coalesce(a, b) == IF a.some THEN a ELSE b

\* an optional number of the runtime config
Unset == [kind |-> "unset", v |-> 0]
Num(n) == [kind |-> "num", v |-> n]

Min(a, b) == IF a <= b THEN a ELSE b
Max(a, b) == IF a >= b THEN a ELSE b

\* a number with a fractional part: k halves
Halves(k) == [kind |-> "halves", v |-> k]

\* a mutant: the fraction is rounded up
clampNonNegativeIntCeil(value, fallback) ==
    Max(0, CASE value.kind = "num" -> value.v
             [] value.kind = "halves" -> (value.v + 1) \div 2
             [] OTHER -> fallback)

\* Math.max(0, Math.floor(finite number, else fallback)); \div rounds towards
\* minus infinity, as Math.floor does
clampNonNegativeInt(value, fallback) ==
    Max(0, CASE value.kind = "num" -> value.v
             [] value.kind = "halves" -> value.v \div 2
             [] OTHER -> fallback)

resolveRecentTurnsPreserve(value) ==
    Min(MAX_RECENT_TURNS_PRESERVE,
        clampNonNegativeInt(value, DEFAULT_RECENT_TURNS_PRESERVE))

resolveQualityGuardMaxRetries(value) ==
    Min(MAX_QUALITY_GUARD_MAX_RETRIES,
        clampNonNegativeInt(value, DEFAULT_QUALITY_GUARD_MAX_RETRIES))

\* messages of the handler's requests
MsgUser ==
    [role |-> "user", text |-> <<"explain">>, isError |-> FALSE,
     toolCallId |-> "", toolName |-> ""]
MsgAssistant ==
    [role |-> "assistant", text |-> <<"a1b2c3d4">>, isError |-> FALSE,
     toolCallId |-> "", toolName |-> ""]
MsgToolError ==
    [role |-> "toolResult", text |-> <<"ENOENT">>, isError |-> TRUE,
     toolCallId |-> "call-1", toolName |-> "exec"]

HandlerMessages == {MsgUser, MsgAssistant, MsgToolError}

extractMessageText(message) == message.text

RECURSIVE collectToolFailuresUnseen(_, _, _)
\* a mutant: the set of seen ids is not consulted
collectToolFailuresUnseen(messages, failures, seen) ==
    IF messages = << >> THEN failures
    ELSE LET m == Head(messages) IN
         IF \/ m.role # "toolResult"
            \/ m.isError # TRUE
            \/ m.toolCallId = ""
         THEN collectToolFailuresUnseen(Tail(messages), failures, seen)
         ELSE collectToolFailuresUnseen(
                Tail(messages),
                Append(failures,
                       [toolCallId |-> m.toolCallId,
                        toolName |-> IF m.toolName # "" THEN m.toolName ELSE "tool",
                        summary |-> IF m.text # << >> THEN m.text
                                    ELSE <<"failed (no output)">>]),
                seen \cup {m.toolCallId})

RECURSIVE collectToolFailuresFrom(_, _, _)
collectToolFailuresFrom(messages, failures, seen) ==
    IF messages = << >> THEN failures
    ELSE LET m == Head(messages) IN
         IF \/ m.role # "toolResult"
            \/ m.isError # TRUE
            \/ m.toolCallId = ""
            \/ m.toolCallId \in seen
         THEN collectToolFailuresFrom(Tail(messages), failures, seen)
         ELSE collectToolFailuresFrom(
                Tail(messages),
                Append(failures,
                       [toolCallId |-> m.toolCallId,
                        toolName |-> IF m.toolName # "" THEN m.toolName ELSE "tool",
                        summary |-> IF m.text # << >> THEN m.text
                                    ELSE <<"failed (no output)">>]),
                seen \cup {m.toolCallId})

collectToolFailures(messages) == collectToolFailuresFrom(messages, << >>, {})

RECURSIVE FailureLines(_)
FailureLines(failures) ==
    IF failures = << >> THEN << >>
    ELSE <<"-", Head(failures).toolName>> \o Head(failures).summary
         \o FailureLines(Tail(failures))

formatToolFailuresSection(failures) ==
    IF Len(failures) = 0 THEN << >>
    ELSE <<"## Tool Failures">>
         \o FailureLines(SubSeq(failures, 1, Min(Len(failures), MAX_TOOL_FAILURES)))
         \o (IF Len(failures) > MAX_TOOL_FAILURES THEN <<"- ...and more">> ELSE << >>)

\* the ascending list of a set of paths; a path is modelled by its rank in
\* the order toSorted() uses
RECURSIVE SortedList(_)
SortedList(S) ==
    IF S = {} THEN << >>
    ELSE LET least == CHOOSE x \in S : \A y \in S : x <= y
         IN <<least>> \o SortedList(S \ {least})

\* a mutant: the modified paths are not taken out of the read ones
computeFileListsKeepsModified(fileOps) ==
    LET modified == fileOps.edited \cup fileOps.written IN
    [readFiles |-> SortedList(fileOps.read),
     modifiedFiles |-> SortedList(modified)]

computeFileLists(fileOps) ==
    LET modified == fileOps.edited \cup fileOps.written IN
    [readFiles |-> SortedList(fileOps.read \ modified),
     modifiedFiles |-> SortedList(modified)]

formatFileOperations(readFiles, modifiedFiles) ==
    (IF Len(readFiles) > 0 THEN <<"<read-files>">> ELSE << >>)
    \o (IF Len(modifiedFiles) > 0 THEN <<"<modified-files>">> ELSE << >>)

IsConversational(message) == message.role = "user" \/ message.role = "assistant"

RECURSIVE CandidateIndexes(_, _, _)
\* the walk from the newest message down, until enough indexes are collected
CandidateIndexes(messages, i, preserveMessages) ==
    IF i < 1 THEN {}
    ELSE IF IsConversational(messages[i])
         THEN IF preserveMessages <= 1 THEN {i}
              ELSE {i} \cup CandidateIndexes(messages, i - 1, preserveMessages - 1)
         ELSE CandidateIndexes(messages, i - 1, preserveMessages)

RECURSIVE SelectIndexes(_, _, _)
SelectIndexes(messages, i, keep) ==
    IF i > Len(messages) THEN << >>
    ELSE (IF i \in keep THEN <<messages[i]>> ELSE << >>)
         \o SelectIndexes(messages, i + 1, keep)

\* a mutant: one message is kept per turn, not two
splitPreservedRecentTurnsOnePerTurn(messages, recentTurnsPreserve) ==
    LET preserveTurns == Min(MAX_RECENT_TURNS_PRESERVE, Max(0, recentTurnsPreserve))
        candidateIndexes == CandidateIndexes(messages, Len(messages), preserveTurns)
    IN IF preserveTurns <= 0 \/ candidateIndexes = {}
       THEN [summarizableMessages |-> messages, preservedMessages |-> << >>]
       ELSE [summarizableMessages |->
                SelectIndexes(messages, 1, (1..Len(messages)) \ candidateIndexes),
             preservedMessages |-> SelectIndexes(messages, 1, candidateIndexes)]

splitPreservedRecentTurns(messages, recentTurnsPreserve) ==
    LET preserveTurns == Min(MAX_RECENT_TURNS_PRESERVE, Max(0, recentTurnsPreserve))
        candidateIndexes == CandidateIndexes(messages, Len(messages), preserveTurns * 2)
    IN IF preserveTurns <= 0 \/ candidateIndexes = {}
       THEN [summarizableMessages |-> messages, preservedMessages |-> << >>]
       ELSE [summarizableMessages |->
                SelectIndexes(messages, 1, (1..Len(messages)) \ candidateIndexes),
             preservedMessages |-> SelectIndexes(messages, 1, candidateIndexes)]

RECURSIVE PreservedLines(_)
PreservedLines(messages) ==
    IF messages = << >> THEN << >>
    ELSE LET m == Head(messages) IN
         (IF extractMessageText(m) = << >> THEN << >>
          ELSE <<IF m.role = "assistant" THEN "- Assistant:" ELSE "- User:">>
               \o extractMessageText(m))
         \o PreservedLines(Tail(messages))

formatPreservedTurnsSection(messages) ==
    IF PreservedLines(messages) = << >> THEN << >>
    ELSE <<"## Recent turns preserved verbatim">> \o PreservedLines(messages)

buildCompactionStructureInstructions(customInstructions) ==
    <<"Produce a compact, factual summary with these exact section headings:">>
    \o REQUIRED_SUMMARY_SECTIONS
    \o (IF customInstructions.some /\ customInstructions.text # << >>
        THEN <<"Additional focus:">> \o customInstructions.text ELSE << >>)

RECURSIVE Dedupe(_, _)
Dedupe(s, seen) ==
    IF s = << >> THEN << >>
    ELSE IF Head(s) \in seen THEN Dedupe(Tail(s), seen)
         ELSE <<Head(s)>> \o Dedupe(Tail(s), seen \cup {Head(s)})

RECURSIVE SelectTokens(_, _)
SelectTokens(s, keep) ==
    IF s = << >> THEN << >>
    ELSE (IF Head(s) \in keep THEN <<Head(s)>> ELSE << >>) \o SelectTokens(Tail(s), keep)

\* thirteen distinct hexadecimal words of eight characters
UniqueTail ==
    <<"b0000000", "b0000001", "b0000002", "b0000003", "b0000004", "b0000005",
      "b0000006", "b0000007", "b0000008", "b0000009", "b000000a", "b000000b",
      "b000000c">>

\* the words of the model the identifier pattern matches as a whole: eight
\* or more hexadecimal characters, six or more digits, a URL (\S+ takes the
\* comma in), paths (the pattern takes the final dot in); "2026", "42" and
\* "18789" are words it does not match
IdentifierTokens ==
    {"a1b2c3d4", "a0b0c0d0", "123456", "https://example.com/a,",
     "/tmp/x.log.", "/tmp/x.log", "/a."} \cup Range(UniqueTail)

\* trim, then the wrapping punctuation stripped from both ends
sanitizeExtractedIdentifier(value) ==
    CASE value = "https://example.com/a," -> "https://example.com/a"
      [] value = "/tmp/x.log." -> "/tmp/x.log"
      [] value = "/a." -> "/a"
      [] OTHER -> value

\* the sanitized words of fewer than four characters
ShorterThanFour == {"/a"}

SanitizedCandidates(text) ==
    LET matches == SelectTokens(text, IdentifierTokens)
        sanitized == [i \in 1..Len(matches) |-> sanitizeExtractedIdentifier(matches[i])]
    IN SelectTokens(sanitized, Range(sanitized) \ ShorterThanFour)

\* a mutant: the cap applied before the duplicates are removed
extractOpaqueIdentifiersCapFirst(text) ==
    LET candidates == SanitizedCandidates(text)
    IN Dedupe(SubSeq(candidates, 1, Min(Len(candidates), MAX_EXTRACTED_IDENTIFIERS)), {})

extractOpaqueIdentifiers(text) ==
    LET unique == Dedupe(SanitizedCandidates(text), {})
    IN SubSeq(unique, 1, Min(Len(unique), MAX_EXTRACTED_IDENTIFIERS))

RECURSIVE JoinTexts(_)
JoinTexts(messages) ==
    IF messages = << >> THEN << >>
    ELSE extractMessageText(Head(messages)) \o JoinTexts(Tail(messages))

LastN(s, n) == SubSeq(s, Max(1, Len(s) - n + 1), Len(s))

RECURSIVE extractLatestUserAskFrom(_, _)
extractLatestUserAskFrom(messages, i) ==
    IF i < 1 THEN None
    ELSE IF messages[i].role = "user" /\ extractMessageText(messages[i]) # << >>
         THEN Some(extractMessageText(messages[i]))
         ELSE extractLatestUserAskFrom(messages, i - 1)

extractLatestUserAsk(messages) == extractLatestUserAskFrom(messages, Len(messages))

\* nine words of six lower-case letters and digits
NineWords == <<"word01", "word02", "word03", "word04", "word05",
               "word06", "word07", "word08", "word09">>

\* the lower-case alphanumeric tokens of length >= 5 among the words of the model
LongTokens == {"explain"} \cup Range(NineWords)

\* String.prototype.toLowerCase, word by word: "Explain" is the word of the
\* model written with an upper-case letter
toLowerCase(text) ==
    [i \in 1..Len(text) |-> IF text[i] = "Explain" THEN "explain" ELSE text[i]]

\* a mutant: the summary is not lower-cased
hasAskOverlapCaseSensitive(text, latestAsk) ==
    IF ~latestAsk.some \/ latestAsk.text = << >> THEN TRUE
    ELSE LET tokens == SelectTokens(toLowerCase(latestAsk.text), LongTokens)
         IN IF Len(tokens) = 0 THEN TRUE
            ELSE \E i \in 1..Min(Len(tokens), 8) : tokens[i] \in Range(text)

hasAskOverlap(text, latestAsk) ==
    IF ~latestAsk.some \/ latestAsk.text = << >> THEN TRUE
    ELSE LET normalizedSummary == toLowerCase(text)
             tokens == SelectTokens(toLowerCase(latestAsk.text), LongTokens)
         IN IF Len(tokens) = 0 THEN TRUE
            ELSE \E i \in 1..Min(Len(tokens), 8) : tokens[i] \in Range(normalizedSummary)

MissingSectionReason(section) ==
    CASE section = "## Decisions" -> "missing_section:## Decisions"
      [] section = "## Open TODOs" -> "missing_section:## Open TODOs"
      [] section = "## Constraints/Rules" -> "missing_section:## Constraints/Rules"
      [] section = "## Pending user asks" -> "missing_section:## Pending user asks"
      [] OTHER -> "missing_section:## Exact identifiers"

RECURSIVE MissingSections(_, _)
MissingSections(sections, text) ==
    IF sections = << >> THEN << >>
    ELSE (IF Head(sections) \in Range(text) THEN << >>
          ELSE <<MissingSectionReason(Head(sections))>>)
         \o MissingSections(Tail(sections), text)

RECURSIVE MissingTokens(_, _)
MissingTokens(identifiers, text) ==
    IF identifiers = << >> THEN << >>
    ELSE (IF Head(identifiers) \in Range(text) THEN << >> ELSE <<Head(identifiers)>>)
         \o MissingTokens(Tail(identifiers), text)

auditSummaryQuality(text, identifiers, latestAsk) ==
    LET missingIdentifiers == MissingTokens(identifiers, text)
        reasons ==
            MissingSections(REQUIRED_SUMMARY_SECTIONS, text)
            \o (IF Len(missingIdentifiers) > 0
                THEN <<"missing_identifiers:">>
                     \o SubSeq(missingIdentifiers, 1, Min(3, Len(missingIdentifiers)))
                ELSE << >>)
            \o (IF ~hasAskOverlap(text, latestAsk)
                THEN <<"latest_user_ask_not_reflected">> ELSE << >>)
    IN [ok |-> Len(reasons) = 0, reasons |-> reasons]

\* a mutant: the suffix is appended to the instructions of the failed attempt
RepairInstructionsAccumulated(structuredInstructions, reasons) ==
    currentInstructions
    \o <<"Previous summary failed quality checks (">> \o reasons
    \o <<"). Fix all issues and include every required section with exact identifiers preserved.">>

RepairInstructions(structuredInstructions, reasons) ==
    structuredInstructions
    \o <<"Previous summary failed quality checks (">> \o reasons
    \o <<"). Fix all issues and include every required section with exact identifiers preserved.">>

----------------------------------------------------------------------------
(* Hybrid merge and dynamic threshold *)

\* bounds of the merge inputs
MaxVector == 2
MaxKeyword == 2

ChunkIds == {"a", "b", "c"}
\* input scores, in tenths
InputScores == {2, 8}
\* <<vectorWeight, textWeight>>, in tenths
WeightPairs == {<<7, 3>>, <<10, 0>>, <<5, 5>>}

\* threshold tiers, in hundredths of a score
HIGH_CUT == 70
MED_CUT == 30
FLOOR == 15

\* a chunk's path stands for the chunk: the returned entries carry no id
VectorResult(id, s) ==
    [id |-> id, path |-> id, source |-> "vector", snippet |-> "vsnip", vectorScore |-> s]

\* the low-scoring keyword rows carry an empty snippet, so that both arms of
\* the snippet replacement are taken
KeywordResult(id, s) ==
    [id |-> id, path |-> id, source |-> "keyword",
     snippet |-> IF s = 2 THEN "" ELSE "ksnip", textScore |-> s]

\* index of the entry of the insertion-ordered map m with key id, 0 if none
MapIndex(m, id) ==
    IF \E i \in 1..Len(m) : m[i].id = id
    THEN CHOOSE i \in 1..Len(m) : m[i].id = id
    ELSE 0

\* Map.set: an existing key keeps its place and takes the new value
MapSet(m, e) ==
    IF MapIndex(m, e.id) = 0 THEN Append(m, e)
    ELSE [m EXCEPT ![MapIndex(m, e.id)] = e]

RECURSIVE InsertVector(_, _)
InsertVector(m, vector) ==
    IF vector = << >> THEN m
    ELSE LET r == Head(vector) IN
         InsertVector(
            MapSet(m, [id |-> r.id, path |-> r.path, source |-> r.source,
                       snippet |-> r.snippet, vectorScore |-> r.vectorScore,
                       textScore |-> 0]),
            Tail(vector))

\* a mutant: a keyword result never finds its vector entry
UpsertKeywordNoLookup(m, r) ==
    Append(m, [id |-> r.id, path |-> r.path, source |-> r.source,
               snippet |-> r.snippet, vectorScore |-> 0,
               textScore |-> r.textScore])

UpsertKeyword(m, r) ==
    LET i == MapIndex(m, r.id) IN
    IF i # 0
    THEN [m EXCEPT ![i].textScore = r.textScore,
                   ![i].snippet = IF r.snippet # "" THEN r.snippet ELSE @]
    ELSE Append(m, [id |-> r.id, path |-> r.path, source |-> r.source,
                    snippet |-> r.snippet, vectorScore |-> 0,
                    textScore |-> r.textScore])

RECURSIVE InsertKeyword(_, _)
InsertKeyword(m, keyword) ==
    IF keyword = << >> THEN m
    ELSE InsertKeyword(UpsertKeyword(m, Head(keyword)), Tail(keyword))

ById(vector, keyword) == InsertKeyword(InsertVector(<< >>, vector), keyword)

\* a mutant: the text score is left out of the weighted sum
WeightedScoreVectorOnly(entry, vw, tw) == vw * entry.vectorScore

WeightedScore(entry, vw, tw) == vw * entry.vectorScore + tw * entry.textScore

MergedEntries(byId, vw, tw) ==
    [i \in 1..Len(byId) |->
        [path |-> byId[i].path, score |-> WeightedScore(byId[i], vw, tw),
         snippet |-> byId[i].snippet, source |-> byId[i].source]]

\* a mutant: a comparator that also moves an entry in front of its ties
ComesBeforeOrTie(a, b) == b.score - a.score <= 0

\* merged.sort((a, b) => b.score - a.score): a goes before b iff the
\* comparator is negative
ComesBefore(a, b) == b.score - a.score < 0

RECURSIVE SortInsert(_, _)
\* stable insertion: e goes behind every entry it does not come before
SortInsert(sorted, e) ==
    IF sorted = << >> THEN <<e>>
    ELSE IF ComesBefore(e, Head(sorted)) THEN <<e>> \o sorted
         ELSE <<Head(sorted)>> \o SortInsert(Tail(sorted), e)

RECURSIVE StableSort(_, _)
StableSort(done, rest) ==
    IF rest = << >> THEN done
    ELSE StableSort(SortInsert(done, Head(rest)), Tail(rest))

\* a mutant: the floor of the low tier is the cut of the medium tier
calculateDynamicThresholdFloorAtCut(topScore) ==
    IF topScore >= HIGH_CUT THEN topScore * 5
    ELSE IF topScore >= MED_CUT THEN topScore * 6
         ELSE MED_CUT * 10

\* a mutant: the tiers start above their cut, not at it
calculateDynamicThresholdAboveCut(topScore) ==
    IF topScore > HIGH_CUT THEN topScore * 5
    ELSE IF topScore > MED_CUT THEN topScore * 6
         ELSE FLOOR * 10

\* scores in hundredths: topScore >= 0.7 -> topScore * 0.5, >= 0.3 ->
\* topScore * 0.6, else 0.15.  The result is in thousandths.
calculateDynamicThreshold(topScore) ==
    IF topScore >= HIGH_CUT THEN topScore * 5
    ELSE IF topScore >= MED_CUT THEN topScore * 6
         ELSE FLOOR * 10

\* a mutant: an entry exactly at the threshold is dropped
applyDynamicThresholdStrict(results, dynamicThreshold) ==
    IF ~dynamicThreshold \/ results = << >> THEN results
    ELSE LET threshold == calculateDynamicThreshold(results[1].score) IN
         FilterSeq(results, {r \in Range(results) : r.score * 10 > threshold})

\* a mutant: the comparison of the filter reversed
applyDynamicThresholdReversed(results, dynamicThreshold) ==
    IF ~dynamicThreshold \/ results = << >> THEN results
    ELSE LET threshold == calculateDynamicThreshold(results[1].score) IN
         FilterSeq(results, {r \in Range(results) : r.score * 10 <= threshold})

applyDynamicThreshold(results, dynamicThreshold) ==
    IF ~dynamicThreshold \/ results = << >> THEN results
    ELSE LET threshold == calculateDynamicThreshold(results[1].score) IN
         FilterSeq(results, {r \in Range(results) : r.score * 10 >= threshold})

mergeHybridResults(vector, keyword, vw, tw, dynamicThreshold) ==
    LET merged == MergedEntries(ById(vector, keyword), vw, tw)
        sorted == StableSort(<< >>, merged)
    \* params.dynamicThreshold ?? false
    IN applyDynamicThreshold(sorted, dynamicThreshold = "true")

HandlerOff ==
    /\ pc = "off"
    /\ req = [off |-> TRUE]
    /\ apiKey = "unasked"
    /\ aborted = FALSE
    /\ trippedDuring = "none"
    /\ rt = [resolved |-> FALSE]
    /\ messagesToSummarize = << >>
    /\ droppedSummary = None
    /\ preservedRecentMessages = << >>
    /\ attempt = 0
    /\ currentInstructions = << >>
    /\ summary = << >>
    /\ calls = << >>
    /\ audits = << >>
    /\ artifact = [returned |-> FALSE]

MergeInit ==
    /\ mPc = "input"
    /\ mVector \in {[i \in 1..Len(s) |-> VectorResult(s[i][1], s[i][2])] :
                        s \in SeqsUpTo(ChunkIds \X InputScores, MaxVector)}
    /\ mKeyword \in {[i \in 1..Len(s) |-> KeywordResult(s[i][1], s[i][2])] :
                        s \in SeqsUpTo(ChunkIds \X InputScores, MaxKeyword)}
    /\ mWeights \in WeightPairs
    /\ mDynamic \in {"true", "false", "omitted"}
    /\ mOut = << >>
    /\ HandlerOff
    /\ HelperOff

Merge ==
    /\ mPc = "input"
    /\ mOut' = mergeHybridResults(mVector, mKeyword, mWeights[1], mWeights[2], mDynamic)
    /\ mPc' = "merged"
    /\ UNCHANGED <<mVector, mKeyword, mWeights, mDynamic>>
    /\ UNCHANGED <<handlerVars, helperVars>>

MergeNext == Merge

MergeSpec == MergeInit /\ [][MergeNext]_vars

----------------------------------------------------------------------------
(* Compaction safeguard: the session_before_compact handler *)

NonFinite == [kind |-> "nonfinite", v |-> 0]

\* resolveContextWindowTokens(model), in tokens
ModelContextWindow == 9
\* runtime?.maxHistoryShare ?? 0.5, in tenths
DefaultMaxHistoryShare == 5
\* SAFETY_MARGIN = 1.2, in tenths
SAFETY_MARGIN == 12
\* the history pruner is called with parts: 2
PruneParts == 2
TokensPerMessage == 1

DEFAULT_SUMMARY_FALLBACK == <<"No prior history.">>

\* the texts a model call may return: every section, identifier and ask;
\* every section but neither identifier nor ask; two sections missing
ModelTexts ==
    { REQUIRED_SUMMARY_SECTIONS \o <<"explain", "a1b2c3d4">>,
      REQUIRED_SUMMARY_SECTIONS,
      <<"## Decisions", "## Open TODOs", "## Constraints/Rules", "explain", "a1b2c3d4">> }

DroppedTexts == {<<"summary of the dropped messages">>}
PrefixTexts == {<<"summary of the turn prefix">>}
WorkspaceTexts == {<< >>, <<"<workspace-critical-rules>">>}

Requests ==
    [ hasModel : BOOLEAN,
      messagesToSummarize : SeqsUpTo(HandlerMessages, MaxMessages),
      turnPrefixMessages : {<< >>, <<MsgUser>>},
      isSplitTurn : BOOLEAN,
      firstKeptEntryId : {"entry-1"},
      tokensBefore : {NonFinite, Num(12)},
      previousSummary : {None, Some(<<"previous summary">>)},
      customInstructions : {None},
      fileOps : {[read |-> {1, 2}, edited |-> {2}, written |-> {3}]},
      qualityGuardEnabled : {"unset", "false"},
      qualityGuardMaxRetries : {Unset, Num(0), Num(99)},
      recentTurnsPreserve : {Unset, Num(0)} ]

estimateMessagesTokens(messages) == Len(messages) * TokensPerMessage

\* the outcomes of pruneHistoryForContextShare: no bucket, the first bucket or
\* both buckets dropped from the front
PruneOutcomes(messages) ==
    { [messages |-> SubSeq(messages, k + 1, Len(messages)),
       droppedMessagesList |-> SubSeq(messages, 1, k),
       droppedChunks |-> c] :
        <<c, k>> \in { <<0, 0>>,
                       <<1, (Len(messages) + 1) \div PruneParts>>,
                       <<PruneParts, Len(messages)>> } }

ToolFailureSection ==
    formatToolFailuresSection(
        collectToolFailures(req.messagesToSummarize \o req.turnPrefixMessages))

FileOpsSummary ==
    formatFileOperations(computeFileLists(req.fileOps).readFiles,
                         computeFileLists(req.fileOps).modifiedFiles)

FallbackSummaryText == FALLBACK_SUMMARY \o ToolFailureSection \o FileOpsSummary

\* the value of a return statement; via names the statement
Artifact(text, via) ==
    [returned |-> TRUE, via |-> via, summary |-> text,
     firstKeptEntryId |-> req.firstKeptEntryId,
     tokensBefore |-> req.tokensBefore,
     details |-> computeFileLists(req.fileOps)]

StructuredInstructions == buildCompactionStructureInstructions(req.customInstructions)

\* a mutant: a retry is given the summary of the attempt before
EffectivePreviousSummaryFromLastAttempt ==
    IF attempt > 0 THEN Some(summary) ELSE Coalesce(droppedSummary, req.previousSummary)

\* line 541
EffectivePreviousSummary == Coalesce(droppedSummary, req.previousSummary)

LatestUserAsk ==
    extractLatestUserAsk(messagesToSummarize \o preservedRecentMessages
                         \o req.turnPrefixMessages)

Identifiers ==
    extractOpaqueIdentifiers(
        JoinTexts(LastN(messagesToSummarize \o preservedRecentMessages, 10)))

Call(kind, messages, instructions, previous) ==
    [kind |-> kind, attempt |-> attempt, messages |-> messages,
     customInstructions |-> instructions, previousSummary |-> previous,
     status |-> "pending", text |-> << >>]

\* the newest call of the log completed
Completed(status, text) ==
    [calls EXCEPT ![Len(calls)].status = status, ![Len(calls)].text = text]

\* what a model call in flight can end as: Cancelled once the signal has
\* tripped, else a text or an error of the model client
CallOutcomes(texts) ==
    IF aborted THEN {[status |-> "cancelled", text |-> << >>]}
    ELSE {[status |-> "ok", text |-> t] : t \in texts}
         \cup {[status |-> "failed", text |-> << >>]}

HandlerInit ==
    /\ pc = "start"
    /\ req \in Requests
    /\ apiKey = "unasked"
    /\ aborted = FALSE
    /\ trippedDuring = "none"
    /\ rt = [resolved |-> FALSE]
    /\ messagesToSummarize = << >>
    /\ droppedSummary = None
    /\ preservedRecentMessages = << >>
    /\ attempt = 0
    /\ currentInstructions = << >>
    /\ summary = << >>
    /\ calls = << >>
    /\ audits = << >>
    /\ artifact = [returned |-> FALSE]

\* lines 399-419: the fallback text is prepared, and returned if no model
Start ==
    /\ UNCHANGED <<mergeVars, helperVars>>
    /\ pc = "start"
    /\ IF ~req.hasModel
       THEN /\ artifact' = Artifact(FallbackSummaryText, "noModel")
            /\ pc' = "done"
       ELSE /\ pc' = "getApiKey"
            /\ UNCHANGED artifact
    /\ UNCHANGED <<req, apiKey, aborted, trippedDuring, rt, messagesToSummarize,
                   droppedSummary, preservedRecentMessages, attempt,
                   currentInstructions, summary, calls, audits>>

\* a mutant: the check of the key left out
MissingKeyAccepted(key) == FALSE

\* line 422: !apiKey
MissingKey(key) == key = "none"

\* lines 421-443: the key resolved, and the knobs of the runtime config
ApiKeyReturns ==
    /\ UNCHANGED <<mergeVars, helperVars>>
    /\ pc = "getApiKey"
    /\ \E outcome \in {"key", "none", "rejected"} :
        /\ apiKey' = outcome
        /\ CASE outcome = "rejected" ->
                \* the await stands before the try block: the handler raises
                /\ pc' = "threw"
                /\ UNCHANGED <<rt, messagesToSummarize, artifact>>
          [] outcome # "rejected" /\ MissingKey(outcome) ->
                /\ artifact' = Artifact(FallbackSummaryText, "noKey")
                /\ pc' = "done"
                /\ UNCHANGED <<rt, messagesToSummarize>>
          [] OTHER ->
                /\ rt' = [resolved |-> TRUE,
                          recentTurnsPreserve |->
                              resolveRecentTurnsPreserve(req.recentTurnsPreserve),
                          qualityGuardEnabled |-> req.qualityGuardEnabled # "false",
                          qualityGuardMaxRetries |->
                              resolveQualityGuardMaxRetries(req.qualityGuardMaxRetries)]
                /\ messagesToSummarize' = req.messagesToSummarize
                /\ pc' = "prune"
                /\ UNCHANGED artifact
    /\ UNCHANGED <<req, aborted, trippedDuring, droppedSummary,
                   preservedRecentMessages, attempt, currentInstructions,
                   summary, calls, audits>>

\* the log entry of a call of pruneHistoryForContextShare: the list given, and
\* under status whether chunks were dropped
PrunerCall(messages, pruned) ==
    [kind |-> "prune", attempt |-> 0, messages |-> messages,
     customInstructions |-> << >>, previousSummary |-> None,
     status |-> IF pruned.droppedChunks > 0 THEN "dropped" ELSE "kept",
     text |-> << >>]

\* a mutant: the safety margin left out of the budget
NeedsPruneNoMargin ==
    /\ req.tokensBefore.kind = "num"
    /\ LET summarizableTokens ==
               estimateMessagesTokens(messagesToSummarize)
               + estimateMessagesTokens(req.turnPrefixMessages)
           newContentTokens == Max(0, req.tokensBefore.v - summarizableTokens)
           maxHistoryTokens == (ModelContextWindow * DefaultMaxHistoryShare) \div 10
       IN newContentTokens > maxHistoryTokens

NeedsPrune ==
    /\ req.tokensBefore.kind = "num"
    /\ LET summarizableTokens ==
               estimateMessagesTokens(messagesToSummarize)
               + estimateMessagesTokens(req.turnPrefixMessages)
           newContentTokens == Max(0, req.tokensBefore.v - summarizableTokens)
           maxHistoryTokens ==
               (ModelContextWindow * DefaultMaxHistoryShare * SAFETY_MARGIN) \div 100
       IN newContentTokens > maxHistoryTokens

\* lines 445-497: PRUNE, up to the await of the dropped-history summarization
Prune ==
    /\ UNCHANGED <<mergeVars, helperVars>>
    /\ pc = "prune"
    /\ IF NeedsPrune
       THEN \E pruned \in PruneOutcomes(messagesToSummarize) :
            LET log == Append(calls, PrunerCall(messagesToSummarize, pruned)) IN
            IF pruned.droppedChunks > 0
            THEN /\ messagesToSummarize' = pruned.messages
                 /\ IF Len(pruned.droppedMessagesList) > 0
                    THEN /\ calls' = Append(log,
                                Call("dropped", pruned.droppedMessagesList,
                                     req.customInstructions, req.previousSummary))
                         /\ pc' = "droppedCall"
                    ELSE /\ pc' = "preserve"
                         /\ calls' = log
            ELSE /\ pc' = "preserve"
                 /\ calls' = log
                 /\ UNCHANGED messagesToSummarize
       ELSE /\ pc' = "preserve"
            /\ UNCHANGED <<messagesToSummarize, calls>>
    /\ UNCHANGED <<req, apiKey, aborted, trippedDuring, rt, droppedSummary,
                   preservedRecentMessages, attempt, currentInstructions,
                   summary, audits, artifact>>

\* a mutant: the inner try block missing, the error reaches the outer catch
DroppedFailureEscapes ==
    /\ artifact' = Artifact(FallbackSummaryText, "catch")
    /\ pc' = "done"

\* lines 498-504: the error of the dropped-history summarization is logged
DroppedFailure ==
    /\ pc' = "preserve"
    /\ UNCHANGED artifact

\* lines 487-504: the dropped-history summarization ends
DroppedCallReturns ==
    /\ UNCHANGED <<mergeVars, helperVars>>
    /\ pc = "droppedCall"
    /\ \E out \in CallOutcomes(DroppedTexts) :
        /\ calls' = Completed(out.status, out.text)
        /\ IF out.status = "ok"
           THEN /\ droppedSummary' = Some(out.text)
                /\ pc' = "preserve"
                /\ UNCHANGED artifact
           ELSE /\ DroppedFailure
                /\ UNCHANGED droppedSummary
    /\ UNCHANGED <<req, apiKey, aborted, trippedDuring, rt, messagesToSummarize,
                   preservedRecentMessages, attempt, currentInstructions,
                   summary, audits>>

\* lines 510-544: PRESERVE_TAIL and the set-up of the retry loop
PreserveTail ==
    /\ UNCHANGED <<mergeVars, helperVars>>
    /\ pc = "preserve"
    /\ LET split == splitPreservedRecentTurns(messagesToSummarize, rt.recentTurnsPreserve)
       IN /\ messagesToSummarize' = split.summarizableMessages
          /\ preservedRecentMessages' = split.preservedMessages
    /\ summary' = << >>
    /\ currentInstructions' = StructuredInstructions
    /\ attempt' = 0
    /\ pc' = "attempt"
    /\ UNCHANGED <<req, apiKey, aborted, trippedDuring, rt, droppedSummary, calls,
                   audits, artifact>>

\* a mutant: one attempt too many
TotalAttemptsOffByOne == IF rt.qualityGuardEnabled THEN rt.qualityGuardMaxRetries + 2 ELSE 2

\* line 544
TotalAttempts == IF rt.qualityGuardEnabled THEN rt.qualityGuardMaxRetries + 1 ELSE 1

\* a mutant: the prefix summarization is given the history summary as
\* previous summary
AfterHistoryPrefixContinues(log, historySummary) ==
    /\ summary' = historySummary
    /\ IF req.isSplitTurn /\ Len(req.turnPrefixMessages) > 0
       THEN /\ calls' = Append(log,
                    Call("prefix", req.turnPrefixMessages,
                         TURN_PREFIX_INSTRUCTIONS \o currentInstructions,
                         Some(historySummary)))
            /\ pc' = "prefixCall"
       ELSE /\ calls' = log
            /\ pc' = "audit"
    /\ UNCHANGED artifact

\* a mutant: the history summary is appended to what the summary held
AfterHistoryAccumulates(log, historySummary) ==
    /\ summary' = summary \o historySummary
    /\ IF req.isSplitTurn /\ Len(req.turnPrefixMessages) > 0
       THEN /\ calls' = Append(log,
                    Call("prefix", req.turnPrefixMessages,
                         TURN_PREFIX_INSTRUCTIONS \o currentInstructions, None))
            /\ pc' = "prefixCall"
       ELSE /\ calls' = log
            /\ pc' = "audit"
    /\ UNCHANGED artifact

\* lines 558-572: the history summary is in; the prefix of a split turn is
\* summarized next, with no previous summary
AfterHistory(log, historySummary) ==
    /\ summary' = historySummary
    /\ IF req.isSplitTurn /\ Len(req.turnPrefixMessages) > 0
       THEN /\ calls' = Append(log,
                    Call("prefix", req.turnPrefixMessages,
                         TURN_PREFIX_INSTRUCTIONS \o currentInstructions, None))
            /\ pc' = "prefixCall"
       ELSE /\ calls' = log
            /\ pc' = "audit"
    /\ UNCHANGED artifact

\* a mutant: the catch returns what the summary had grown to
CatchKeepsSummary(log) ==
    /\ calls' = log
    /\ artifact' = Artifact(summary \o ToolFailureSection \o FileOpsSummary, "catch")
    /\ pc' = "done"
    /\ UNCHANGED summary

\* lines 606-619: the catch of the try block
CatchFallback(log) ==
    /\ calls' = log
    /\ artifact' = Artifact(FallbackSummaryText, "catch")
    /\ pc' = "done"
    /\ UNCHANGED summary

\* lines 545-556: an attempt issues the history summarization; an empty
\* message list needs no model call and is answered at once
StartAttempt ==
    /\ UNCHANGED <<mergeVars, helperVars>>
    /\ pc = "attempt"
    /\ LET call == Call("history", messagesToSummarize, currentInstructions,
                        EffectivePreviousSummary)
       IN IF messagesToSummarize = << >>
          THEN LET text == Coalesce(EffectivePreviousSummary,
                                    Some(DEFAULT_SUMMARY_FALLBACK)).text
               IN AfterHistory(
                    Append(calls, [call EXCEPT !.status = "ok", !.text = text]), text)
          ELSE /\ calls' = Append(calls, call)
               /\ pc' = "historyCall"
               /\ UNCHANGED <<summary, artifact>>
    /\ UNCHANGED <<req, apiKey, aborted, trippedDuring, rt, messagesToSummarize,
                   droppedSummary, preservedRecentMessages, attempt,
                   currentInstructions, audits>>

\* lines 546-556: the history summarization ends
HistoryCallReturns ==
    /\ UNCHANGED <<mergeVars, helperVars>>
    /\ pc = "historyCall"
    /\ \E out \in CallOutcomes(ModelTexts) :
        IF out.status = "ok"
        THEN AfterHistory(Completed(out.status, out.text), out.text)
        ELSE CatchFallback(Completed(out.status, out.text))
    /\ UNCHANGED <<req, apiKey, aborted, trippedDuring, rt, messagesToSummarize,
                   droppedSummary, preservedRecentMessages, attempt,
                   currentInstructions, audits>>

\* lines 560-571: the prefix summarization ends
PrefixCallReturns ==
    /\ UNCHANGED <<mergeVars, helperVars>>
    /\ pc = "prefixCall"
    /\ \E out \in CallOutcomes(PrefixTexts) :
        IF out.status = "ok"
        THEN /\ calls' = Completed(out.status, out.text)
             /\ summary' = summary \o SPLIT_TURN_SEPARATOR \o out.text
             /\ pc' = "audit"
             /\ UNCHANGED artifact
        ELSE CatchFallback(Completed(out.status, out.text))
    /\ UNCHANGED <<req, apiKey, aborted, trippedDuring, rt, messagesToSummarize,
                   droppedSummary, preservedRecentMessages, attempt,
                   currentInstructions, audits>>

\* a mutant: a passed audit does not end the loop
StopsAfterLastOnly(quality) == attempt >= TotalAttempts - 1

\* line 582: the loop is left after this attempt
StopsAfter(quality) == quality.ok \/ attempt >= TotalAttempts - 1

\* lines 573-587: the preserved turns are appended and the summary audited
AuditStep ==
    /\ UNCHANGED <<mergeVars, helperVars>>
    /\ pc = "audit"
    /\ LET text == summary \o formatPreservedTurnsSection(preservedRecentMessages)
           quality == auditSummaryQuality(text, Identifiers, LatestUserAsk)
       IN /\ summary' = text
          /\ IF ~rt.qualityGuardEnabled
             THEN /\ pc' = "assemble"
                  /\ UNCHANGED <<audits, attempt, currentInstructions>>
             ELSE /\ audits' = Append(audits,
                        [attempt |-> attempt, ok |-> quality.ok,
                         reasons |-> quality.reasons, summary |-> text])
                  /\ IF StopsAfter(quality)
                     THEN /\ pc' = "assemble"
                          /\ UNCHANGED <<attempt, currentInstructions>>
                     ELSE /\ currentInstructions' =
                                RepairInstructions(StructuredInstructions, quality.reasons)
                          /\ attempt' = attempt + 1
                          /\ pc' = "attempt"
    /\ UNCHANGED <<req, apiKey, aborted, trippedDuring, rt, messagesToSummarize,
                   droppedSummary, preservedRecentMessages, calls, artifact>>

\* lines 589-593: ASSEMBLE, up to the await of the workspace-rules read
Assemble ==
    /\ UNCHANGED <<mergeVars, helperVars>>
    /\ pc = "assemble"
    /\ summary' = summary \o ToolFailureSection \o FileOpsSummary
    /\ pc' = "workspaceRead"
    /\ UNCHANGED <<req, apiKey, aborted, trippedDuring, rt, messagesToSummarize,
                   droppedSummary, preservedRecentMessages, attempt,
                   currentInstructions, calls, audits, artifact>>

\* lines 593-605: the rules are read (an error reads as no rules) and the
\* normal artifact is returned
WorkspaceReadReturns ==
    /\ UNCHANGED <<mergeVars, helperVars>>
    /\ pc = "workspaceRead"
    /\ \E workspaceContext \in WorkspaceTexts :
        /\ summary' = summary \o workspaceContext
        /\ artifact' = Artifact(summary \o workspaceContext, "normal")
    /\ pc' = "done"
    /\ UNCHANGED <<req, apiKey, aborted, trippedDuring, rt, messagesToSummarize,
                   droppedSummary, preservedRecentMessages, attempt,
                   currentInstructions, calls, audits>>

Suspended == pc \in {"getApiKey", "droppedCall", "historyCall", "prefixCall", "workspaceRead"}

\* the host trips event.signal while the handler is suspended in an await
TripSignal ==
    /\ UNCHANGED <<mergeVars, helperVars>>
    /\ Suspended
    /\ ~aborted
    /\ aborted' = TRUE
    /\ trippedDuring' = pc
    /\ UNCHANGED <<pc, req, apiKey, rt, messagesToSummarize, droppedSummary,
                   preservedRecentMessages, attempt, currentInstructions,
                   summary, calls, audits, artifact>>

MergeOff ==
    /\ mPc = "off"
    /\ mVector = << >>
    /\ mKeyword = << >>
    /\ mWeights = <<0, 0>>
    /\ mDynamic = "omitted"
    /\ mOut = << >>

Init == HandlerInit /\ MergeOff /\ HelperOff

Next ==
    \/ Start
    \/ ApiKeyReturns
    \/ Prune
    \/ DroppedCallReturns
    \/ PreserveTail
    \/ StartAttempt
    \/ HistoryCallReturns
    \/ PrefixCallReturns
    \/ AuditStep
    \/ Assemble
    \/ WorkspaceReadReturns
    \/ TripSignal

Spec == Init /\ [][Next]_vars

----------------------------------------------------------------------------
(* Properties of the session_before_compact handler *)

CallsOfKind(kinds) == {i \in 1..Len(calls) : calls[i].kind \in kinds}

Failed(i) == calls[i].status \in {"failed", "cancelled"}

Returned == pc = "done" /\ artifact.returned

\* the artifact carries the identifying fields of the request
CarriesRequestFields ==
    /\ artifact.firstKeptEntryId = req.firstKeptEntryId
    /\ artifact.tokensBefore = req.tokensBefore
    /\ artifact.details.modifiedFiles = SortedList(req.fileOps.edited \cup req.fileOps.written)
    /\ artifact.details.readFiles =
            SortedList(req.fileOps.read \ (req.fileOps.edited \cup req.fileOps.written))

IsFallbackArtifact ==
    /\ artifact.summary = FALLBACK_SUMMARY \o ToolFailureSection \o FileOpsSummary
    /\ CarriesRequestFields

\* the history summarizations issued so far
HistoryAttempts == Cardinality(CallsOfKind({"history"}))

\* C1: whatever the collaborators do (getApiKey giving a key, none or
\* failing; a model call succeeding, failing or being cancelled; the rules
\* read succeeding or failing), the handler ends by returning an artifact and
\* never by raising an error.
C1_HandlerNeverRaises == pc # "threw"

\* C2: when the history summarization or the split-turn prefix summarization
\* fails on any attempt (a retry after a completed attempt included), the
\* returned summary is exactly FALLBACK_SUMMARY + toolFailureSection +
\* fileOpsSummary, with no text of an earlier attempt, no preserved-turns
\* section and no workspace-rules section, and firstKeptEntryId, tokensBefore
\* and details are those of the request.
C2_FailedSummarizationGivesFallback ==
    (Returned /\ \E i \in CallsOfKind({"history", "prefix"}) : Failed(i)) =>
        /\ IsFallbackArtifact
        /\ \A i \in 1..Len(calls) : Range(calls[i].text) \cap Range(artifact.summary) = {}
        /\ "## Recent turns preserved verbatim" \notin Range(artifact.summary)
        /\ "<workspace-critical-rules>" \notin Range(artifact.summary)

C2_Witness ==
    /\ Returned
    /\ Len(audits) > 0
    /\ preservedRecentMessages # << >>
    /\ \E i \in CallsOfKind({"history"}) : Failed(i) /\ calls[i].attempt > 0
    /\ \E i \in CallsOfKind({"prefix"}) : calls[i].status = "ok"

\* C3: if no model is configured, or getApiKey returns no key, the handler
\* returns the fallback artifact and summarizeInStages is never invoked for
\* the request.
C3_ModelUnavailableGivesFallback ==
    (pc # "start" /\ (~req.hasModel \/ apiKey = "none")) =>
        /\ Returned
        /\ IsFallbackArtifact
        /\ calls = << >>

C3_Witness ==
    /\ Returned
    /\ req.hasModel
    /\ apiKey = "none"
    /\ req.tokensBefore.kind = "num"
    /\ req.messagesToSummarize # << >>

\* C4: whenever the signal trips while a model call is in flight, be it of
\* the dropped-history, the history or the prefix summarization, the call
\* fails as Cancelled and the artifact finally returned is the fallback one.
C4_CancelledCallGivesFallback ==
    (Returned /\ trippedDuring \in {"droppedCall", "historyCall", "prefixCall"}) =>
        /\ \E i \in 1..Len(calls) : calls[i].status = "cancelled"
        /\ IsFallbackArtifact

\* the total of the loop at part_000:544, from the resolved runtime values
AttemptLimit == IF rt.qualityGuardEnabled THEN rt.qualityGuardMaxRetries + 1 ELSE 1

\* the history summarizations issued so far stay within the limit
AttemptsWithinLimit ==
    /\ ~rt.resolved => HistoryAttempts = 0
    /\ rt.resolved =>
        /\ rt.qualityGuardEnabled =>
                /\ HistoryAttempts <= rt.qualityGuardMaxRetries + 1
                /\ HistoryAttempts <= MAX_QUALITY_GUARD_MAX_RETRIES + 1
        /\ ~rt.qualityGuardEnabled => HistoryAttempts <= 1
        /\ (~rt.qualityGuardEnabled /\ Returned) => HistoryAttempts = 1
        /\ pc \in {"attempt", "historyCall", "prefixCall", "audit"} =>
                /\ attempt < AttemptLimit
                /\ HistoryAttempts = IF pc = "attempt" THEN attempt ELSE attempt + 1

\* C5: the history summarization is attempted at most qualityGuardMaxRetries
\* + 1 times with the quality guard enabled, so at most 4 times whatever
\* retry value is configured, and exactly once with the guard disabled; the
\* retry loop terminates: the attempt counter never decreases, every return
\* to the head of the loop raises it by one, and it stays below the limit.
C5_BoundedAttempts ==
    /\ []AttemptsWithinLimit
    /\ [][attempt' >= attempt]_vars
    /\ [][(pc = "audit" /\ pc' = "attempt") =>
                (attempt' = attempt + 1 /\ attempt' < AttemptLimit)]_vars

C5_Witness ==
    /\ Returned
    /\ rt.resolved
    /\ rt.qualityGuardEnabled
    /\ req.qualityGuardMaxRetries = Num(99)
    /\ HistoryAttempts = 4

\* C6: with the quality guard enabled the summary of the artifact is that of
\* the first attempt whose audit is ok, or of the final attempt if none
\* passes; no summarization is issued after a passed audit, a new one is
\* issued only after a failed audit of a non-final attempt, and a final
\* attempt that fails the audit still yields the normal artifact.
C6_FirstPassingOrFinalAttempt ==
    (rt.resolved /\ rt.qualityGuardEnabled) =>
        /\ \A k \in 1..Len(audits) :
            /\ audits[k].attempt = k - 1
            /\ audits[k].ok =>
                  /\ k = Len(audits)
                  /\ \A i \in 1..Len(calls) : calls[i].attempt <= k - 1
        /\ \A i \in CallsOfKind({"history", "prefix"}) :
            calls[i].attempt > 0 =>
                /\ Len(audits) >= calls[i].attempt
                /\ ~audits[calls[i].attempt].ok
                /\ calls[i].attempt - 1 < rt.qualityGuardMaxRetries
        /\ (Returned /\ \A i \in CallsOfKind({"history", "prefix"}) : ~Failed(i)) =>
            /\ artifact.via = "normal"
            /\ Len(audits) > 0
            /\ audits[Len(audits)].ok \/ Len(audits) = rt.qualityGuardMaxRetries + 1
            /\ \E workspaceContext \in WorkspaceTexts :
                    artifact.summary = audits[Len(audits)].summary \o ToolFailureSection
                                       \o FileOpsSummary \o workspaceContext

C6_Witness ==
    /\ Returned
    /\ rt.resolved
    /\ rt.qualityGuardEnabled
    /\ artifact.via = "normal"
    /\ Len(audits) = 2
    /\ rt.qualityGuardMaxRetries = 3
    /\ audits[2].ok
    /\ audits[1].summary # audits[2].summary

C6_WitnessFinalFails ==
    /\ Returned
    /\ artifact.via = "normal"
    /\ Len(audits) = 4
    /\ ~audits[4].ok

\* the pruned message list: the request's list without the dropped front
PrunedMessages(droppedCall) ==
    SubSeq(req.messagesToSummarize, Len(droppedCall.messages) + 1,
           Len(req.messagesToSummarize))

\* C7: a failure of the dropped-history summarization does not give the
\* fallback artifact: the handler goes on to PRESERVE_TAIL and SUMMARIZE with
\* the pruned list and no droppedSummary, and returns the normal artifact
\* whenever the summarizations that follow succeed.
C7_DroppedFailureContinues ==
    \A d \in CallsOfKind({"dropped"}) :
        Failed(d) =>
            /\ droppedSummary = None
            /\ \A i \in CallsOfKind({"history"}) :
                /\ calls[i].previousSummary = req.previousSummary
                /\ calls[i].messages =
                     splitPreservedRecentTurns(PrunedMessages(calls[d]),
                                               rt.recentTurnsPreserve).summarizableMessages
            /\ Returned =>
                IF \A i \in CallsOfKind({"history", "prefix"}) : ~Failed(i)
                THEN artifact.via = "normal" /\ HistoryAttempts > 0
                ELSE artifact.via = "catch"

C7_Witness ==
    /\ Returned
    /\ artifact.via = "normal"
    /\ \E d \in CallsOfKind({"dropped"}) : calls[d].status = "failed"
    /\ \E i \in CallsOfKind({"history"}) : calls[i].text \in ModelTexts
    /\ req.previousSummary.some

----------------------------------------------------------------------------
(* Properties of mergeHybridResults *)

IdsOf(results) == {results[i].id : i \in 1..Len(results)}

\* the last row of results with this id, 0 if none
LastIndexOf(results, id) ==
    IF id \in IdsOf(results)
    THEN CHOOSE i \in 1..Len(results) :
            /\ results[i].id = id
            /\ \A j \in (i + 1)..Len(results) : results[j].id # id
    ELSE 0

\* the first row of results with this id
FirstIndexOf(results, id) ==
    CHOOSE i \in 1..Len(results) :
        /\ results[i].id = id
        /\ \A j \in 1..(i - 1) : results[j].id # id

VectorScoreOf(id) ==
    IF id \in IdsOf(mVector) THEN mVector[LastIndexOf(mVector, id)].vectorScore ELSE 0

TextScoreOf(id) ==
    IF id \in IdsOf(mKeyword) THEN mKeyword[LastIndexOf(mKeyword, id)].textScore ELSE 0

\* place of an id in the order of insertion: the vector rows in input order,
\* then the keyword-only rows in input order
InsertionRank(id) ==
    IF id \in IdsOf(mVector) THEN FirstIndexOf(mVector, id)
    ELSE Len(mVector) + FirstIndexOf(mKeyword, id)

\* C8: every entry returned by mergeHybridResults has score = vectorWeight *
\* vectorScore + textWeight * textScore, the missing side counting 0 (an id
\* only in the keyword input has vectorScore 0, an id only in the vector
\* input has textScore 0); with non-negative weights and input scores the
\* merged score is >= 0.
C8_MergedScoreIsWeightedSum ==
    mPc = "merged" =>
        \A i \in 1..Len(mOut) :
            /\ mOut[i].score = mWeights[1] * VectorScoreOf(mOut[i].path)
                               + mWeights[2] * TextScoreOf(mOut[i].path)
            /\ mOut[i].score >= 0

C8_Witness ==
    /\ mPc = "merged"
    /\ mWeights[1] > 0 /\ mWeights[2] > 0
    /\ \E i, j, k \in 1..Len(mOut) :
        /\ mOut[i].path \in IdsOf(mVector) \cap IdsOf(mKeyword)
        /\ mOut[j].path \in IdsOf(mVector) \ IdsOf(mKeyword)
        /\ mOut[k].path \in IdsOf(mKeyword) \ IdsOf(mVector)
        /\ mOut[k].score > 0

\* C9: with dynamicThreshold false or omitted, mergeHybridResults returns
\* exactly one entry per distinct chunk id of the vector input or the keyword
\* input: an id in both inputs yields a single entry and no id is lost.
C9_OneEntryPerId ==
    (mPc = "merged" /\ mDynamic # "true") =>
        /\ Len(mOut) = Cardinality(IdsOf(mVector) \cup IdsOf(mKeyword))
        /\ {mOut[i].path : i \in 1..Len(mOut)} = IdsOf(mVector) \cup IdsOf(mKeyword)

C9_Witness ==
    /\ mPc = "merged"
    /\ mDynamic = "omitted"
    /\ IdsOf(mVector) \cap IdsOf(mKeyword) # {}
    /\ Len(mVector) + Len(mKeyword) > Len(mOut)
    /\ Len(mOut) = 3

\* C10: the list returned by mergeHybridResults is ordered by score
\* descending, and entries of equal score keep the order of insertion
\* (vector rows in input order, then keyword-only rows in input order).  The
\* result is a function of the inputs, so equal inputs give equal orders.
C10_SortedDescendingStable ==
    mPc = "merged" =>
        \A i, j \in 1..Len(mOut) :
            i < j =>
                /\ mOut[i].score >= mOut[j].score
                /\ mOut[i].score = mOut[j].score =>
                        InsertionRank(mOut[i].path) < InsertionRank(mOut[j].path)

C10_Witness ==
    /\ mPc = "merged"
    /\ \E i, j, k \in 1..Len(mOut) :
        /\ i < j
        /\ mOut[i].score = mOut[j].score
        /\ mOut[k].score > mOut[i].score
        /\ InsertionRank(mOut[k].path) > InsertionRank(mOut[i].path)

----------------------------------------------------------------------------
(* Dynamic threshold: calculateDynamicThreshold and applyDynamicThreshold  *)
(* called on their own                                                     *)

MaxTopScore == 120
MaxResults == 3

\* top scores in hundredths, the negative ones included
TopScores == (0 - MaxTopScore)..MaxTopScore

\* scores in hundredths, on and around the tier cuts and their thresholds
ResultScores == {10, 14, 15, 17, 18, 20, 30, 34, 35, 70, 100}

\* a record exposing a numeric score; id tells the records of a list apart
ScoredResult(id, score) == [id |-> id, score |-> score]

CalculateInit ==
    /\ fn = "calculateDynamicThreshold"
    /\ fnArgs \in [topScore : TopScores]
    /\ fnResult = << >>
    /\ HandlerOff
    /\ MergeOff

CalculateThreshold ==
    /\ fn = "calculateDynamicThreshold"
    /\ fnResult = << >>
    /\ fnResult' = <<calculateDynamicThreshold(fnArgs.topScore)>>
    /\ UNCHANGED <<fn, fnArgs>>
    /\ UNCHANGED <<mergeVars, handlerVars>>

CalculateSpec == CalculateInit /\ [][CalculateThreshold]_vars

ThresholdInit ==
    /\ fn = "applyDynamicThreshold"
    /\ fnArgs \in { [results |-> [i \in 1..Len(s) |-> ScoredResult(i, s[i])],
                     dynamicThreshold |-> flag] :
                        s \in SeqsUpTo(ResultScores, MaxResults), flag \in BOOLEAN }
    /\ fnResult = << >>
    /\ HandlerOff
    /\ MergeOff

\* the function applied to the list given, then to the list it returned
ApplyThreshold ==
    /\ fn = "applyDynamicThreshold"
    /\ Len(fnResult) < 2
    /\ fnResult' =
         Append(fnResult,
                applyDynamicThreshold(IF fnResult = << >> THEN fnArgs.results
                                      ELSE fnResult[Len(fnResult)],
                                      fnArgs.dynamicThreshold))
    /\ UNCHANGED <<fn, fnArgs>>
    /\ UNCHANGED <<mergeVars, handlerVars>>

ThresholdSpec == ThresholdInit /\ [][ApplyThreshold]_vars

----------------------------------------------------------------------------
(* Properties of the dynamic threshold *)

\* the indexes of the entries at or above the threshold of the first entry
KeptIndexes(results) ==
    {i \in 1..Len(results) :
        results[i].score * 10 >= calculateDynamicThreshold(results[1].score)}

\* the j-th smallest member of a set of indexes
NthIndex(S, j) == CHOOSE i \in S : Cardinality({k \in S : k < i}) = j - 1

\* C11: applyDynamicThreshold returns the list unchanged when the flag is
\* false or the list is empty; otherwise it returns exactly the entries with
\* score >= calculateDynamicThreshold(results[0].score), those exactly at the
\* threshold included, in their original order and as the same records.
C11_ThresholdKeepsEntriesAtOrAbove ==
    (fn = "applyDynamicThreshold" /\ Len(fnResult) >= 1) =>
        LET results == fnArgs.results
            out == fnResult[1]
        IN  IF ~fnArgs.dynamicThreshold \/ results = << >>
            THEN out = results
            ELSE /\ Len(out) = Cardinality(KeptIndexes(results))
                 /\ \A j \in 1..Len(out) : out[j] = results[NthIndex(KeptIndexes(results), j)]

C11_Witness ==
    /\ fn = "applyDynamicThreshold"
    /\ Len(fnResult) >= 1
    /\ fnArgs.dynamicThreshold
    /\ Len(fnArgs.results) = 3
    /\ Len(fnResult[1]) = 2
    /\ fnResult[1][2].id = 3
    /\ fnResult[1][2].score * 10 = calculateDynamicThreshold(fnArgs.results[1].score)

\* C12: calculateDynamicThreshold(top) is 0.5 * top for top >= 0.7, 0.6 * top
\* for 0.3 <= top < 0.7 and 0.15 otherwise, negative tops included, and is
\* never below 0.15 (tops in hundredths, thresholds in thousandths).
C12_ThresholdTiers ==
    (fn = "calculateDynamicThreshold" /\ Len(fnResult) = 1) =>
        LET top == fnArgs.topScore
            threshold == fnResult[1]
        IN  /\ top >= 70 => threshold = 5 * top
            /\ (top >= 30 /\ top < 70) => threshold = 6 * top
            /\ top < 30 => threshold = 150
            /\ threshold >= 150

C12_Witness ==
    /\ fn = "calculateDynamicThreshold"
    /\ Len(fnResult) = 1
    /\ fnArgs.topScore = 30
    /\ fnResult[1] = 180

SortedDescending(results) ==
    \A i \in 1..Len(results) : \A j \in i..Len(results) :
        results[i].score >= results[j].score

\* C13 as stated: for every result list, applying the enabled threshold twice
\* gives the same list as applying it once.
C13_ThresholdIdempotent ==
    (fn = "applyDynamicThreshold" /\ Len(fnResult) = 2 /\ fnArgs.dynamicThreshold) =>
        fnResult[2] = fnResult[1]

\* C13 amended: for every result list sorted by score descending, applying
\* the enabled threshold twice gives the same list as applying it once.
C13_ThresholdIdempotentOnSorted ==
    (/\ fn = "applyDynamicThreshold"
     /\ Len(fnResult) = 2
     /\ fnArgs.dynamicThreshold
     /\ SortedDescending(fnArgs.results)) =>
        fnResult[2] = fnResult[1]

C13_Witness ==
    /\ fn = "applyDynamicThreshold"
    /\ Len(fnResult) = 2
    /\ fnArgs.dynamicThreshold
    /\ SortedDescending(fnArgs.results)
    /\ Len(fnArgs.results) = 3
    /\ Len(fnResult[1]) = 2
    /\ fnResult[2] = fnResult[1]

C24_WitnessBelowFloor ==
    /\ fn = "applyDynamicThreshold"
    /\ Len(fnResult) >= 1
    /\ fnArgs.dynamicThreshold
    /\ SortedDescending(fnArgs.results)
    /\ Len(fnArgs.results) = 2
    /\ fnArgs.results[1].score = 14
    /\ fnResult[1] = << >>

----------------------------------------------------------------------------
(* Memory search: calculateRecencyPenalty                                  *)
(*                                                                         *)
(* Timestamps are counted in units of six hours, so that a day            *)
(* (24 * 60 * 60 * 1000 ms) is 4 units; lambda is in hundredths.  A        *)
(* quotient of the code is kept as an exact fraction num / den, den > 0.   *)

MaxTime == 12
MaxWindowDays == 2

msPerDay == 4

Lambdas == {0, 8, 50, 100}

\* updated_at of a row: null (or undefined), or a timestamp
NullTime == [kind |-> "null", v |-> 0]

Fraction(num, den) == [num |-> num, den |-> den]

\* a <= b for fractions
FractionLeq(a, b) == a.num * b.den <= b.num * a.den

\* a mutant: the ratio is not capped at 1
calculateRecencyPenaltyUncapped(updatedAt, now, lambda, windowDays) ==
    IF updatedAt.kind = "null" \/ updatedAt.v > now THEN Fraction(0, 1)
    ELSE Fraction(lambda * (now - updatedAt.v), msPerDay * windowDays)

calculateRecencyPenalty(updatedAt, now, lambda, windowDays) ==
    IF updatedAt.kind = "null" \/ updatedAt.v > now THEN Fraction(0, 1)
    ELSE LET daysSince == Fraction(now - updatedAt.v, msPerDay)
             quotient == Fraction(daysSince.num, daysSince.den * windowDays)
             ratio == IF FractionLeq(Fraction(1, 1), quotient)
                      THEN Fraction(1, 1) ELSE quotient
         IN  Fraction(lambda * ratio.num, ratio.den)

RecencyInit ==
    /\ fn = "calculateRecencyPenalty"
    /\ fnArgs \in [ updatedAt : {NullTime} \cup {Num(t) : t \in 0..MaxTime},
                    now : 0..MaxTime,
                    lambda : Lambdas,
                    windowDays : 1..MaxWindowDays ]
    /\ fnResult = << >>
    /\ HandlerOff
    /\ MergeOff

CalculatePenalty ==
    /\ fn = "calculateRecencyPenalty"
    /\ fnResult = << >>
    /\ fnResult' = <<calculateRecencyPenalty(fnArgs.updatedAt, fnArgs.now,
                                             fnArgs.lambda, fnArgs.windowDays)>>
    /\ UNCHANGED <<fn, fnArgs>>
    /\ UNCHANGED <<mergeVars, handlerVars>>

RecencySpec == RecencyInit /\ [][CalculatePenalty]_vars

----------------------------------------------------------------------------
(* Properties of calculateRecencyPenalty *)

\* C14: the penalty is exactly 0 when updatedAt is null, absent or later than
\* now; for updatedAt <= now, lambda in [0,1] and windowDays >= 1 it is
\* lambda * min(1, (now - updatedAt) / (windowDays * 86,400,000)), so it lies
\* in [0, lambda], does not decrease as the age grows, and is lambda for
\* every age of windowDays or more.
C14_RecencyPenalty ==
    (fn = "calculateRecencyPenalty" /\ Len(fnResult) = 1) =>
        LET penalty == fnResult[1]
            lambda == fnArgs.lambda
            window == fnArgs.windowDays * msPerDay
            age == fnArgs.now - fnArgs.updatedAt.v
        IN  IF fnArgs.updatedAt.kind = "null" \/ fnArgs.updatedAt.v > fnArgs.now
            THEN penalty.num = 0
            ELSE /\ penalty.den > 0
                 /\ penalty.num * window = lambda * Min(age, window) * penalty.den
                 /\ penalty.num >= 0
                 /\ penalty.num <= lambda * penalty.den
                 /\ age >= window => penalty.num = lambda * penalty.den
                 /\ \A older \in 0..fnArgs.updatedAt.v :
                        FractionLeq(penalty,
                                    calculateRecencyPenalty(Num(older), fnArgs.now,
                                                            lambda, fnArgs.windowDays))

C14_Witness ==
    /\ fn = "calculateRecencyPenalty"
    /\ Len(fnResult) = 1
    /\ fnArgs.updatedAt.kind = "num"
    /\ fnArgs.lambda = 8
    /\ fnArgs.windowDays = 2
    /\ fnArgs.now - fnArgs.updatedAt.v = 4
    /\ fnResult[1].num * 2 = 8 * fnResult[1].den

----------------------------------------------------------------------------
(* Memory search: searchVector                                             *)
(*                                                                         *)
(* A chunk of the store carries its similarity to the query vector, in     *)
(* hundredths: the accelerated branch reads it as 1 - dist, the fallback   *)
(* branch as cosineSimilarity(queryVec, embedding), which may be not a     *)
(* number.  A score is an exact fraction, or not a number.                 *)

MaxChunks == 2

\* Date.now(), in the time unit of calculateRecencyPenalty
SearchNow == 8

Similarities == {-20, 60, 85}

UpdateTimes == {NullTime, Num(0), Num(6), Num(10)}

NotANumber == [finite |-> FALSE, num |-> 0, den |-> 1]
Finite(num, den) == [finite |-> TRUE, num |-> num, den |-> den]

StoredChunks ==
    [ similarity : {NotANumber} \cup {Finite(s, 1) : s \in Similarities},
      updatedAt : UpdateTimes ]

\* params.recency: absent, disabled, or enabled with lambda and windowDays
Recencies ==
    { [present |-> FALSE, enabled |-> FALSE, lambda |-> 0, windowDays |-> 1],
      [present |-> TRUE, enabled |-> FALSE, lambda |-> 100, windowDays |-> 1],
      [present |-> TRUE, enabled |-> TRUE, lambda |-> 100, windowDays |-> 1],
      [present |-> TRUE, enabled |-> TRUE, lambda |-> 8, windowDays |-> 2] }

\* recency?.enabled
RecencyEnabled(recency) == recency.present /\ recency.enabled

\* score - penalty
Minus(score, penalty) ==
    IF score.finite
    THEN Finite(score.num * penalty.den - penalty.num * score.den,
                score.den * penalty.den)
    ELSE NotANumber

\* Math.max(0, x): not a number stays not a number
MaxZero(x) == IF x.finite /\ x.num < 0 THEN Finite(0, 1) ELSE x

\* b.score - a.score < 0 in the comparator of the sort: a goes before b
ScoreBefore(a, b) == b.score.num * a.score.den < a.score.num * b.score.den

RECURSIVE ScoreInsert(_, _)
ScoreInsert(sorted, entry) ==
    IF sorted = << >> THEN <<entry>>
    ELSE IF ScoreBefore(entry, Head(sorted)) THEN <<entry>> \o sorted
         ELSE <<Head(sorted)>> \o ScoreInsert(Tail(sorted), entry)

RECURSIVE SortByScore(_, _)
\* Array.prototype.sort with (a, b) => b.score - a.score: stable
SortByScore(done, rest) ==
    IF rest = << >> THEN done
    ELSE SortByScore(ScoreInsert(done, Head(rest)), Tail(rest))

\* a mutant: the penalised score is not clamped
AcceleratedScoreUnclamped(row, now, recency) ==
    LET score == Finite(100 - row.dist, 1) IN
    IF RecencyEnabled(recency)
    THEN Minus(score, calculateRecencyPenalty(row.updated_at, now, recency.lambda,
                                              recency.windowDays))
    ELSE score

\* lines 98-107: the score of a row of the vector table
AcceleratedScore(row, now, recency) ==
    LET score == Finite(100 - row.dist, 1) IN
    IF RecencyEnabled(recency)
    THEN MaxZero(Minus(score, calculateRecencyPenalty(row.updated_at, now, recency.lambda,
                                                      recency.windowDays)))
    ELSE score

\* lines 134-143: the score of a chunk listed from the store
FallbackScore(chunk, now, recency) ==
    LET score == chunk.similarity IN
    IF RecencyEnabled(recency)
    THEN MaxZero(Minus(score, calculateRecencyPenalty(chunk.updatedAt, now, recency.lambda,
                                                      recency.windowDays)))
    ELSE score

\* the orders in which ORDER BY dist ASC can return the chunks: any order of
\* the rows with dist ascending
DistOrders(chunks) ==
    { p \in [1..Len(chunks) -> 1..Len(chunks)] :
        /\ \A i, j \in 1..Len(chunks) : i # j => p[i] # p[j]
        /\ \A i, j \in 1..Len(chunks) :
              i < j => chunks[p[i]].similarity.num >= chunks[p[j]].similarity.num }

\* lines 70-95: the rows of the vector table joined with the chunks, nearest
\* first, LIMIT rows at most; a chunk's position in the store is its id
VectorRows(chunks, limit) ==
    { [i \in 1..Min(limit, Len(chunks)) |->
          [id |-> p[i],
           dist |-> 100 - chunks[p[i]].similarity.num,
           updated_at |-> chunks[p[i]].updatedAt]] : p \in DistOrders(chunks) }

\* listChunks: the chunks of the store, in the order of the table
listChunks(chunks) ==
    [i \in 1..Len(chunks) |->
        [id |-> i, similarity |-> chunks[i].similarity, updatedAt |-> chunks[i].updatedAt]]

\* lines 97-124
AcceleratedResults(rows, now, recency) ==
    LET results == [i \in 1..Len(rows) |->
                        [id |-> rows[i].id, score |-> AcceleratedScore(rows[i], now, recency)]]
    IN  IF RecencyEnabled(recency) THEN SortByScore(<< >>, results) ELSE results

\* lines 127-158
FallbackResults(candidates, limit, now, recency) ==
    LET mapped == [i \in 1..Len(candidates) |->
                        [id |-> candidates[i].id,
                         score |-> FallbackScore(candidates[i], now, recency)]]
        scored == FilterSeq(mapped, {entry \in Range(mapped) : entry.score.finite})
        sorted == SortByScore(<< >>, scored)
    IN  SubSeq(sorted, 1, Min(limit, Len(sorted)))

SearchInit ==
    /\ fn = "searchVector"
    /\ fnArgs \in { a \in [ chunks : SeqsUpTo(StoredChunks, MaxChunks),
                            queryVecLength : {0, 1},
                            limit : {0, 1, 2},
                            recency : Recencies,
                            ready : BOOLEAN,
                            now : {SearchNow} ] :
                        \* dist is a number in every row of the vector table
                        a.ready => \A i \in 1..Len(a.chunks) : a.chunks[i].similarity.finite }
    /\ fnResult = << >>
    /\ HandlerOff
    /\ MergeOff

\* one call of searchVector; ready is what ensureVectorReady resolves to
SearchVector ==
    /\ fn = "searchVector"
    /\ fnResult = << >>
    /\ IF fnArgs.queryVecLength = 0 \/ fnArgs.limit <= 0
       THEN fnResult' = << << >> >>
       ELSE IF fnArgs.ready
            THEN \E rows \in VectorRows(fnArgs.chunks, fnArgs.limit) :
                    fnResult' = <<AcceleratedResults(rows, fnArgs.now, fnArgs.recency)>>
            ELSE fnResult' = <<FallbackResults(listChunks(fnArgs.chunks), fnArgs.limit,
                                               fnArgs.now, fnArgs.recency)>>
    /\ UNCHANGED <<fn, fnArgs>>
    /\ UNCHANGED <<mergeVars, handlerVars>>

SearchSpec == SearchInit /\ [][SearchVector]_vars

----------------------------------------------------------------------------
(* Properties of searchVector *)

\* the score the claim gives a chunk under an enabled recency config
ClampedScore(chunk) ==
    MaxZero(Minus(chunk.similarity,
                  calculateRecencyPenalty(chunk.updatedAt, fnArgs.now,
                                          fnArgs.recency.lambda, fnArgs.recency.windowDays)))

SameNumber(a, b) == a.finite /\ b.finite /\ a.num * b.den = b.num * a.den

\* C15: with recency enabled every result of searchVector has score =
\* max(0, rawScore - penalty), hence score >= 0, in the accelerated and in
\* the fallback branch, and the list is sorted by that score descending;
\* with recency disabled or absent the raw score is returned unpenalised.
C15_PenalisedScoresClampedAndSorted ==
    (fn = "searchVector" /\ Len(fnResult) = 1) =>
        LET out == fnResult[1] IN
        IF RecencyEnabled(fnArgs.recency)
        THEN /\ \A i \in 1..Len(out) :
                    /\ SameNumber(out[i].score, ClampedScore(fnArgs.chunks[out[i].id]))
                    /\ out[i].score.num >= 0
                    /\ out[i].score.den > 0
             /\ \A i, j \in 1..Len(out) :
                    i < j => FractionLeq(out[j].score, out[i].score)
        ELSE \A i \in 1..Len(out) : out[i].score = fnArgs.chunks[out[i].id].similarity

\* the accelerated branch, a result clamped to 0 and the penalty moving the
\* nearest row behind a farther one
C15_Witness ==
    /\ fn = "searchVector"
    /\ Len(fnResult) = 1
    /\ fnArgs.ready
    /\ RecencyEnabled(fnArgs.recency)
    /\ Len(fnResult[1]) = 2
    /\ fnArgs.chunks[fnResult[1][1].id].similarity.num
            < fnArgs.chunks[fnResult[1][2].id].similarity.num
    /\ fnResult[1][2].score.num = 0
    /\ fnArgs.chunks[fnResult[1][2].id].similarity.num > 0

\* the fallback branch, recency enabled, a chunk whose similarity is not a
\* number left out and a result clamped to 0
C15_WitnessFallback ==
    /\ fn = "searchVector"
    /\ Len(fnResult) = 1
    /\ ~fnArgs.ready
    /\ RecencyEnabled(fnArgs.recency)
    /\ fnArgs.limit = 2
    /\ Len(fnArgs.chunks) = 2
    /\ \E i \in 1..2 : ~fnArgs.chunks[i].similarity.finite
    /\ Len(fnResult[1]) = 1
    /\ fnResult[1][1].score.num = 0

----------------------------------------------------------------------------
(* The handler over every combination of file operations *)

\* requests that take the handler through every step, with any sets of read,
\* edited and written paths
FileOpsRequests ==
    [ hasModel : BOOLEAN,
      messagesToSummarize : {<<MsgUser, MsgAssistant>>},
      turnPrefixMessages : {<<MsgUser>>},
      isSplitTurn : {TRUE},
      firstKeptEntryId : {"entry-1"},
      tokensBefore : {Num(12)},
      previousSummary : {None},
      customInstructions : {None},
      fileOps : [read : SUBSET {1, 2, 3}, edited : SUBSET {1, 2}, written : SUBSET {2, 3}],
      qualityGuardEnabled : {"unset"},
      qualityGuardMaxRetries : {Num(0)},
      recentTurnsPreserve : {Num(0)} ]

FileOpsInit ==
    /\ pc = "start"
    /\ req \in FileOpsRequests
    /\ apiKey = "unasked"
    /\ aborted = FALSE
    /\ trippedDuring = "none"
    /\ rt = [resolved |-> FALSE]
    /\ messagesToSummarize = << >>
    /\ droppedSummary = None
    /\ preservedRecentMessages = << >>
    /\ attempt = 0
    /\ currentInstructions = << >>
    /\ summary = << >>
    /\ calls = << >>
    /\ audits = << >>
    /\ artifact = [returned |-> FALSE]
    /\ MergeOff
    /\ HelperOff

FileOpsSpec == FileOpsInit /\ [][Next]_vars

StrictlyAscending(list) ==
    \A i \in 1..Len(list) : \A j \in 1..Len(list) : i < j => list[i] < list[j]

\* C16: in every artifact the handler returns, normal or fallback,
\* details.modifiedFiles is the sorted duplicate-free union of fileOps.edited
\* and fileOps.written, details.readFiles is the sorted duplicate-free
\* fileOps.read minus modifiedFiles, and the two lists share no path.
C16_FileListsDisjointAndSorted ==
    Returned =>
        LET readFiles == artifact.details.readFiles
            modifiedFiles == artifact.details.modifiedFiles
        IN  /\ StrictlyAscending(modifiedFiles)
            /\ Range(modifiedFiles) = req.fileOps.edited \cup req.fileOps.written
            /\ StrictlyAscending(readFiles)
            /\ Range(readFiles) = req.fileOps.read \ Range(modifiedFiles)
            /\ Range(readFiles) \cap Range(modifiedFiles) = {}

\* a normal artifact for paths read and also edited, or read and also written
C16_Witness ==
    /\ Returned
    /\ artifact.via = "normal"
    /\ req.fileOps.read = {1, 2, 3}
    /\ req.fileOps.edited = {1}
    /\ req.fileOps.written = {3}
    /\ artifact.details.readFiles = <<2>>
    /\ artifact.details.modifiedFiles = <<1, 3>>

\* the fallback artifact of the catch block for overlapping sets
C16_WitnessFallback ==
    /\ Returned
    /\ artifact.via = "catch"
    /\ req.fileOps.read \cap req.fileOps.edited # {}
    /\ Len(artifact.details.modifiedFiles) = 3

----------------------------------------------------------------------------
(* collectToolFailures called on its own *)

MaxToolMessages == 3

\* tool results, failed or not, with a toolCallId, with one shared with
\* another message, or with none (""), and a user message
ToolMessages ==
    [ role : {"toolResult"},
      text : {<<"ENOENT">>, <<"EACCES">>},
      isError : BOOLEAN,
      toolCallId : {"call-1", "call-2", ""},
      toolName : {"exec"} ] \cup {MsgUser}

ToolFailuresInit ==
    /\ fn = "collectToolFailures"
    /\ fnArgs \in [messages : SeqsUpTo(ToolMessages, MaxToolMessages)]
    /\ fnResult = << >>
    /\ HandlerOff
    /\ MergeOff

CollectToolFailures ==
    /\ fn = "collectToolFailures"
    /\ fnResult = << >>
    /\ fnResult' = <<collectToolFailures(fnArgs.messages)>>
    /\ UNCHANGED <<fn, fnArgs>>
    /\ UNCHANGED <<mergeVars, handlerVars>>

ToolFailuresSpec == ToolFailuresInit /\ [][CollectToolFailures]_vars

\* the messages that report a failure under an id
FailingIndexes(messages, id) ==
    {k \in 1..Len(messages) :
        /\ messages[k].role = "toolResult"
        /\ messages[k].isError = TRUE
        /\ messages[k].toolCallId = id}

LeastOf(S) == CHOOSE k \in S : \A other \in S : k <= other

\* C17: collectToolFailures yields at most one entry per toolCallId, only for
\* toolResult messages with isError = true and a non-empty toolCallId; of
\* several failing messages with one toolCallId the first gives the entry,
\* and the entries keep the order of first occurrence.
C17_OneFailurePerToolCall ==
    (fn = "collectToolFailures" /\ Len(fnResult) = 1) =>
        LET messages == fnArgs.messages
            failures == fnResult[1]
        IN  /\ \A i, j \in 1..Len(failures) :
                    i # j => failures[i].toolCallId # failures[j].toolCallId
            /\ \A i \in 1..Len(failures) :
                    /\ failures[i].toolCallId # ""
                    /\ FailingIndexes(messages, failures[i].toolCallId) # {}
                    /\ failures[i].summary =
                         messages[LeastOf(FailingIndexes(messages, failures[i].toolCallId))].text
            /\ \A i, j \in 1..Len(failures) :
                    i < j => LeastOf(FailingIndexes(messages, failures[i].toolCallId))
                               < LeastOf(FailingIndexes(messages, failures[j].toolCallId))
            /\ \A k \in 1..Len(messages) :
                    (k \in FailingIndexes(messages, messages[k].toolCallId)
                     /\ messages[k].toolCallId # "") =>
                        \E i \in 1..Len(failures) :
                            failures[i].toolCallId = messages[k].toolCallId

\* two failures of call-1 with different texts around a failure of call-2
C17_Witness ==
    /\ fn = "collectToolFailures"
    /\ Len(fnResult) = 1
    /\ Len(fnArgs.messages) = 3
    /\ FailingIndexes(fnArgs.messages, "call-1") = {1, 3}
    /\ FailingIndexes(fnArgs.messages, "call-2") = {2}
    /\ fnArgs.messages[1].text # fnArgs.messages[3].text
    /\ Len(fnResult[1]) = 2
    /\ fnResult[1][1].summary = fnArgs.messages[1].text

----------------------------------------------------------------------------
(* splitPreservedRecentTurns called on its own *)

MaxSplitMessages == 4

\* a conversation of n messages, user and assistant in turn
LongConversation(n) == [i \in 1..n |-> IF i % 2 = 1 THEN MsgUser ELSE MsgAssistant]

\* short lists of any roles, and conversations around twice the maximum of
\* preserved turns, one of them ending in a tool result
SplitInputs ==
    SeqsUpTo(HandlerMessages, MaxSplitMessages)
    \cup {LongConversation(n) : n \in {2 * MAX_RECENT_TURNS_PRESERVE,
                                        2 * MAX_RECENT_TURNS_PRESERVE + 1}}
    \cup {Append(LongConversation(2 * MAX_RECENT_TURNS_PRESERVE + 1), MsgToolError)}

SplitInit ==
    /\ fn = "splitPreservedRecentTurns"
    /\ fnArgs \in [ messages : SplitInputs,
                    recentTurnsPreserve : {0 - 1, 0, 1, 2, MAX_RECENT_TURNS_PRESERVE,
                                           MAX_RECENT_TURNS_PRESERVE + 1} ]
    /\ fnResult = << >>
    /\ HandlerOff
    /\ MergeOff

SplitPreservedRecentTurns ==
    /\ fn = "splitPreservedRecentTurns"
    /\ fnResult = << >>
    /\ fnResult' = <<splitPreservedRecentTurns(fnArgs.messages, fnArgs.recentTurnsPreserve)>>
    /\ UNCHANGED <<fn, fnArgs>>
    /\ UNCHANGED <<mergeVars, handlerVars>>

SplitSpec == SplitInit /\ [][SplitPreservedRecentTurns]_vars

\* the indexes of the messages whose role is user or assistant
Conversational(messages) ==
    {i \in 1..Len(messages) : messages[i].role \in {"user", "assistant"}}

\* the n largest members of a set of indexes
Newest(S, n) == {i \in S : Cardinality({j \in S : j > i}) < n}

\* the messages at the indexes of S, in their order
MessagesAt(messages, S) == [j \in 1..Cardinality(S) |-> messages[NthIndex(S, j)]]

\* C18: splitPreservedRecentTurns returns as preserved exactly the newest
\* min(2 * min(N, 12), k) messages of role user or assistant, k being their
\* number, in original order, and as summarizable all the other messages in
\* original order, so every message is in exactly one list; for N = 0 it
\* returns (msgs, []).
C18_PreservesNewestTurns ==
    (fn = "splitPreservedRecentTurns" /\ Len(fnResult) = 1) =>
        LET messages == fnArgs.messages
            N == fnArgs.recentTurnsPreserve
            conversational == Conversational(messages)
            count == Min(2 * Min(N, 12), Cardinality(conversational))
            preserved == Newest(conversational, count)
        IN  /\ fnResult[1].preservedMessages = MessagesAt(messages, preserved)
            /\ fnResult[1].summarizableMessages =
                    MessagesAt(messages, (1..Len(messages)) \ preserved)
            /\ Len(fnResult[1].preservedMessages) + Len(fnResult[1].summarizableMessages)
                    = Len(messages)
            /\ N = 0 => /\ fnResult[1].summarizableMessages = messages
                        /\ fnResult[1].preservedMessages = << >>

\* more turns asked for than the maximum, and more messages than it allows
C18_Witness ==
    /\ fn = "splitPreservedRecentTurns"
    /\ Len(fnResult) = 1
    /\ fnArgs.recentTurnsPreserve = 13
    /\ Len(fnArgs.messages) = 26
    /\ Len(fnResult[1].preservedMessages) = 24
    /\ fnResult[1].summarizableMessages = <<MsgUser, MsgToolError>>

\* a tool result between the preserved messages stays with the summarizable
C18_WitnessShort ==
    /\ fn = "splitPreservedRecentTurns"
    /\ Len(fnResult) = 1
    /\ fnArgs.recentTurnsPreserve = 1
    /\ fnArgs.messages = <<MsgUser, MsgAssistant, MsgToolError, MsgUser>>
    /\ fnResult[1].preservedMessages = <<MsgAssistant, MsgUser>>
    /\ fnResult[1].summarizableMessages = <<MsgUser, MsgToolError>>

----------------------------------------------------------------------------
(* auditSummaryQuality called on its own *)

\* summaries: any of the required headings, followed by nothing, by the
\* identifier, by the asked word in either case, or by the ninth word
AuditSummaries ==
    { SelectTokens(REQUIRED_SUMMARY_SECTIONS, sections) \o rest :
        sections \in SUBSET Range(REQUIRED_SUMMARY_SECTIONS),
        rest \in { << >>, <<"a1b2c3d4">>, <<"a1b2c3d4", "explain">>,
                   <<"a1b2c3d4", "Explain">>, <<"a1b2c3d4", "word09">> } }

\* the latest ask: none, without a long token, one long word in either case,
\* and nine long words
AuditAsks ==
    { None, Some(<<"fix", "it">>), Some(<<"explain">>), Some(<<"Explain", "it">>),
      Some(NineWords) }

AuditInit ==
    /\ fn = "auditSummaryQuality"
    /\ fnArgs \in [ summary : AuditSummaries,
                    identifiers : {<< >>, <<"a1b2c3d4">>},
                    latestAsk : AuditAsks ]
    /\ fnResult = << >>
    /\ HandlerOff
    /\ MergeOff

AuditSummaryQuality ==
    /\ fn = "auditSummaryQuality"
    /\ fnResult = << >>
    /\ fnResult' = <<auditSummaryQuality(fnArgs.summary, fnArgs.identifiers,
                                         fnArgs.latestAsk)>>
    /\ UNCHANGED <<fn, fnArgs>>
    /\ UNCHANGED <<mergeVars, handlerVars>>

AuditSpec == AuditInit /\ [][AuditSummaryQuality]_vars

\* the positions of the ask whose lower-cased word is a long token
LongPositions(ask) ==
    {i \in 1..Len(ask) : toLowerCase(ask)[i] \in LongTokens}

AllSectionsPresent ==
    \A i \in 1..Len(REQUIRED_SUMMARY_SECTIONS) :
        REQUIRED_SUMMARY_SECTIONS[i] \in Range(fnArgs.summary)

AllIdentifiersPresent ==
    \A i \in 1..Len(fnArgs.identifiers) : fnArgs.identifiers[i] \in Range(fnArgs.summary)

\* C19 as stated: ok iff every required heading and every seed identifier
\* occurs in the summary and latestAsk is null, or has no lower-case
\* alphanumeric token of length >= 5, or at least one such token occurs in
\* the lower-cased summary; ok is true exactly when reasons is empty.
C19_AuditOkIff ==
    (fn = "auditSummaryQuality" /\ Len(fnResult) = 1) =>
        LET ask == fnArgs.latestAsk IN
        /\ fnResult[1].ok <=>
              /\ AllSectionsPresent
              /\ AllIdentifiersPresent
              /\ \/ ~ask.some
                 \/ LongPositions(ask.text) = {}
                 \/ \E i \in LongPositions(ask.text) :
                        toLowerCase(ask.text)[i] \in Range(toLowerCase(fnArgs.summary))
        /\ fnResult[1].ok <=> fnResult[1].reasons = << >>

\* C19 amended: as stated, with the ask reflected when one of its first 8
\* lower-case alphanumeric tokens of length >= 5 occurs in the lower-cased
\* summary.
C19_AuditOkIffFirstEightTokens ==
    (fn = "auditSummaryQuality" /\ Len(fnResult) = 1) =>
        LET ask == fnArgs.latestAsk IN
        /\ fnResult[1].ok <=>
              /\ AllSectionsPresent
              /\ AllIdentifiersPresent
              /\ \/ ~ask.some
                 \/ LongPositions(ask.text) = {}
                 \/ \E i \in LongPositions(ask.text) :
                        /\ Cardinality({j \in LongPositions(ask.text) : j < i}) < 8
                        /\ toLowerCase(ask.text)[i] \in Range(toLowerCase(fnArgs.summary))
        /\ fnResult[1].ok <=> fnResult[1].reasons = << >>

\* every heading and the identifier present, and of the nine long words of
\* the ask only the ninth in the summary: the audit fails
C19_Witness ==
    /\ fn = "auditSummaryQuality"
    /\ Len(fnResult) = 1
    /\ AllSectionsPresent
    /\ fnArgs.identifiers = <<"a1b2c3d4">>
    /\ AllIdentifiersPresent
    /\ fnArgs.latestAsk = Some(NineWords)
    /\ "word09" \in Range(fnArgs.summary)
    /\ ~fnResult[1].ok
    /\ fnResult[1].reasons = <<"latest_user_ask_not_reflected">>

\* the asked word matched across upper and lower case: the audit passes
C19_WitnessOk ==
    /\ fn = "auditSummaryQuality"
    /\ Len(fnResult) = 1
    /\ fnArgs.identifiers = <<"a1b2c3d4">>
    /\ fnArgs.latestAsk = Some(<<"explain">>)
    /\ "Explain" \in Range(fnArgs.summary)
    /\ fnResult[1].ok

----------------------------------------------------------------------------
(* The runtime registry and the resolved knobs *)

MaxConfigured == 14

\* what a configuration can hold for a knob: nothing, NaN or an infinity,
\* integers (negative ones and 99 among them) and numbers with a fraction
ConfiguredValues ==
    {Unset, NonFinite, Num(99)}
        \cup {Num(n) : n \in (0 - 2)..MaxConfigured}
        \cup {Halves(k) : k \in {0 - 3, 0 - 1, 1, 3, 5, 7, 25, 27}}

\* the session managers that are objects, and a key that is none (null,
\* undefined)
SessionManagers == {"sm1", "sm2"}
NotAnObject == "null"

\* null in place of a runtime record: reading a knob of it gives undefined
NullRuntime ==
    [present |-> FALSE, recentTurnsPreserve |-> Unset, qualityGuardMaxRetries |-> Unset]
Runtime(recentTurnsPreserve, qualityGuardMaxRetries) ==
    [present |-> TRUE, recentTurnsPreserve |-> recentTurnsPreserve,
     qualityGuardMaxRetries |-> qualityGuardMaxRetries]

\* the registry maps the session managers that have an entry to their record
EmptyRegistry == [k \in {} |-> NullRuntime]

\* a mutant: a set replaces the entries of all session managers
setCompactionSafeguardRuntimeShared(registry, sessionManager, value) ==
    IF sessionManager \notin SessionManagers THEN registry
    ELSE IF ~value.present THEN EmptyRegistry
    ELSE [k \in SessionManagers |-> value]

\* setCompactionSafeguardRuntime(sessionManager, value): ignored for a key
\* that is not an object; null removes the entry; else the entry becomes the
\* record as given
setCompactionSafeguardRuntime(registry, sessionManager, value) ==
    IF sessionManager \notin SessionManagers THEN registry
    ELSE IF ~value.present
         THEN [k \in DOMAIN registry \ {sessionManager} |-> registry[k]]
    ELSE [k \in DOMAIN registry \cup {sessionManager} |->
              IF k = sessionManager THEN value ELSE registry[k]]

\* getCompactionSafeguardRuntime(sessionManager): the entry, else null
getCompactionSafeguardRuntime(registry, sessionManager) ==
    IF sessionManager \in SessionManagers /\ sessionManager \in DOMAIN registry
    THEN registry[sessionManager]
    ELSE NullRuntime

ResolveInit ==
    /\ fn = "resolve"
    /\ fnArgs \in [ cfg : [recentTurnsPreserve : ConfiguredValues,
                           qualityGuardMaxRetries : ConfiguredValues],
                    registry : {EmptyRegistry} ]
    /\ fnResult = << >>
    /\ HandlerOff
    /\ MergeOff

\* the configured knobs are put into the registry
SetRuntime ==
    /\ fn = "resolve"
    /\ fnArgs.registry = EmptyRegistry
    /\ fnResult = << >>
    /\ fnArgs' = [fnArgs EXCEPT !.registry =
            setCompactionSafeguardRuntime(@, "sm1",
                Runtime(fnArgs.cfg.recentTurnsPreserve, fnArgs.cfg.qualityGuardMaxRetries))]
    /\ UNCHANGED <<fn, fnResult>>
    /\ UNCHANGED <<mergeVars, handlerVars>>

\* the handler reads the registry and resolves the two knobs
ResolveRuntime ==
    /\ fn = "resolve"
    /\ fnResult = << >>
    /\ LET runtime == getCompactionSafeguardRuntime(fnArgs.registry, "sm1")
       IN fnResult' =
            << [ runtime |-> runtime,
                 recentTurnsPreserve |->
                     resolveRecentTurnsPreserve(runtime.recentTurnsPreserve),
                 qualityGuardMaxRetries |->
                     resolveQualityGuardMaxRetries(runtime.qualityGuardMaxRetries) ] >>
    /\ UNCHANGED <<fn, fnArgs>>
    /\ UNCHANGED <<mergeVars, handlerVars>>

ResolveSpec == ResolveInit /\ [][SetRuntime \/ ResolveRuntime]_vars

\* the knob a value stands for: the default when it is missing or not finite,
\* else the number floored and brought into 0..max
ExpectedKnob(value, default, max) ==
    IF value.kind \notin {"num", "halves"} THEN default
    ELSE LET twice == IF value.kind = "num" THEN 2 * value.v ELSE value.v
         IN IF twice < 0 THEN 0
            ELSE IF twice >= 2 * max THEN max
            ELSE CHOOSE m \in 0..max : 2 * m <= twice /\ twice < 2 * m + 2

\* C20: the resolved recentTurnsPreserve is in [0, 12] and the resolved
\* qualityGuardMaxRetries in [0, 3]: 99 gives 12 and 3, a negative number 0, a
\* fraction is floored, a missing or non-finite value gives the default (3
\* and 1); the registry holds the value as configured, unclamped.
C20_ResolvedKnobsClamped ==
    /\ (fn = "resolve" /\ fnArgs.registry # EmptyRegistry) =>
            /\ fnArgs.registry["sm1"].recentTurnsPreserve = fnArgs.cfg.recentTurnsPreserve
            /\ fnArgs.registry["sm1"].qualityGuardMaxRetries = fnArgs.cfg.qualityGuardMaxRetries
    /\ (fn = "resolve" /\ Len(fnResult) = 1) =>
        LET r == fnResult[1] IN
        /\ r.recentTurnsPreserve \in 0..12
        /\ r.qualityGuardMaxRetries \in 0..3
        /\ r.recentTurnsPreserve = ExpectedKnob(r.runtime.recentTurnsPreserve, 3, 12)
        /\ r.qualityGuardMaxRetries = ExpectedKnob(r.runtime.qualityGuardMaxRetries, 1, 3)
        /\ r.runtime.recentTurnsPreserve = Num(99) => r.recentTurnsPreserve = 12
        /\ r.runtime.qualityGuardMaxRetries = Num(99) => r.qualityGuardMaxRetries = 3

\* 99 configured for both knobs: the registry holds 99, the handler uses 12 and 3
C20_Witness ==
    /\ fn = "resolve"
    /\ fnArgs.registry # EmptyRegistry
    /\ fnArgs.registry["sm1"] = Runtime(Num(99), Num(99))
    /\ Len(fnResult) = 1
    /\ fnResult[1].runtime = fnArgs.registry["sm1"]
    /\ fnResult[1].recentTurnsPreserve = 12
    /\ fnResult[1].qualityGuardMaxRetries = 3

\* 2.5 turns and a missing retry count: 2 turns and the default of 1 retry
C20_WitnessFloored ==
    /\ fn = "resolve"
    /\ Len(fnResult) = 1
    /\ fnResult[1].runtime.recentTurnsPreserve = Halves(5)
    /\ fnResult[1].runtime.qualityGuardMaxRetries = Unset
    /\ fnResult[1].recentTurnsPreserve = 2
    /\ fnResult[1].qualityGuardMaxRetries = 1

----------------------------------------------------------------------------
(* The runtime registry under sequences of set and get calls *)

MaxCalls == 3

\* the values a caller sets: null or a runtime record
RuntimeValues == {NullRuntime, Runtime(Num(99), Unset), Runtime(Num(2), Num(0))}

RegistryKeys == SessionManagers \cup {NotAnObject}

RegistryInit ==
    /\ fn = "registry"
    /\ fnArgs = [registry |-> EmptyRegistry]
    /\ fnResult = << >>
    /\ HandlerOff
    /\ MergeOff

\* one call of setCompactionSafeguardRuntime, appended to the log of calls
SetRuntimeFor ==
    /\ fn = "registry"
    /\ Len(fnResult) < MaxCalls
    /\ \E k \in RegistryKeys, value \in RuntimeValues :
        /\ fnArgs' = [registry |-> setCompactionSafeguardRuntime(fnArgs.registry, k, value)]
        /\ fnResult' = Append(fnResult, [op |-> "set", key |-> k, value |-> value])
    /\ UNCHANGED fn
    /\ UNCHANGED <<mergeVars, handlerVars>>

\* one call of getCompactionSafeguardRuntime, logged with what it returned
GetRuntimeFor ==
    /\ fn = "registry"
    /\ Len(fnResult) < MaxCalls
    /\ \E k \in RegistryKeys :
        fnResult' = Append(fnResult,
            [op |-> "get", key |-> k,
             value |-> getCompactionSafeguardRuntime(fnArgs.registry, k)])
    /\ UNCHANGED <<fn, fnArgs>>
    /\ UNCHANGED <<mergeVars, handlerVars>>

RegistrySpec == RegistryInit /\ [][SetRuntimeFor \/ GetRuntimeFor]_vars

\* the set calls for key k among the first n calls of the log
SetsBefore(k, n) ==
    {i \in 1..n : fnResult[i].op = "set" /\ fnResult[i].key = k}

\* what the log says a get of k after the first n calls returns
LastSet(k, n) ==
    IF k \notin SessionManagers \/ SetsBefore(k, n) = {} THEN NullRuntime
    ELSE fnResult[CHOOSE i \in SetsBefore(k, n) : \A j \in SetsBefore(k, n) : j <= i].value

\* C21: a get of k returns the value most recently set for k, and none if k
\* was never set, if its latest set was null, or if k is not an object; a
\* set on one identity leaves the lookup of every other identity as it was.
C21_RegistryReturnsLatestSet ==
    fn = "registry" =>
        /\ \A i \in 1..Len(fnResult) :
              fnResult[i].op = "get" =>
                  fnResult[i].value = LastSet(fnResult[i].key, i - 1)
        /\ \A k \in RegistryKeys :
              getCompactionSafeguardRuntime(fnArgs.registry, k) = LastSet(k, Len(fnResult))

\* sm1 set, then sm2 set to another record, then sm1 read: its own record
C21_Witness ==
    /\ fn = "registry"
    /\ Len(fnResult) = 3
    /\ fnResult[1] = [op |-> "set", key |-> "sm1", value |-> Runtime(Num(99), Unset)]
    /\ fnResult[2] = [op |-> "set", key |-> "sm2", value |-> Runtime(Num(2), Num(0))]
    /\ fnResult[3] = [op |-> "get", key |-> "sm1", value |-> Runtime(Num(99), Unset)]

\* sm1 set, then cleared with null, then read: none
C21_WitnessCleared ==
    /\ fn = "registry"
    /\ Len(fnResult) = 3
    /\ fnResult[1] = [op |-> "set", key |-> "sm1", value |-> Runtime(Num(99), Unset)]
    /\ fnResult[2] = [op |-> "set", key |-> "sm1", value |-> NullRuntime]
    /\ fnResult[3] = [op |-> "get", key |-> "sm1", value |-> NullRuntime]

----------------------------------------------------------------------------
(* Properties of the normal artifact and of the calls of an attempt *)

NormalArtifact == Returned /\ artifact.via = "normal"

\* the newest call of a kind (0 when there is none)
LastCallOfKind(kind) ==
    IF CallsOfKind({kind}) = {} THEN 0
    ELSE CHOOSE i \in CallsOfKind({kind}) : \A j \in CallsOfKind({kind}) : j <= i

\* the model summary of the newest attempt, from the texts the calls returned
AcceptedModelSummary ==
    LET h == calls[LastCallOfKind("history")]
    IN IF \E i \in CallsOfKind({"prefix"}) : calls[i].attempt = h.attempt
       THEN h.text \o SPLIT_TURN_SEPARATOR \o calls[LastCallOfKind("prefix")].text
       ELSE h.text

\* C22: the summary of a normal artifact is, in this order and each exactly
\* once whatever the number of attempts: the accepted attempt's model summary
\* (history summary, plus the split-turn block when present), the
\* preserved-recent-turns section, the tool-failure section, the file-ops
\* section, and the workspace-rules section when present.
C22_NormalSummaryOrder ==
    NormalArtifact =>
        /\ LastCallOfKind("history") > 0
        /\ calls[LastCallOfKind("history")].attempt = attempt
        /\ \E workspaceContext \in WorkspaceTexts :
              artifact.summary =
                  AcceptedModelSummary
                  \o formatPreservedTurnsSection(preservedRecentMessages)
                  \o ToolFailureSection
                  \o FileOpsSummary
                  \o workspaceContext

\* a normal artifact after a rejected attempt, with a split-turn block,
\* preserved turns and workspace rules
C22_Witness ==
    /\ NormalArtifact
    /\ Len(audits) >= 2
    /\ attempt >= 1
    /\ CallsOfKind({"prefix"}) # {}
    /\ preservedRecentMessages # << >>
    /\ "<workspace-critical-rules>" \in Range(artifact.summary)

----------------------------------------------------------------------------
(* extractOpaqueIdentifiers called on its own *)

MaxRepeats == 10

RECURSIVE Repeated(_, _)
Repeated(word, n) == IF n <= 0 THEN << >> ELSE <<word>> \o Repeated(word, n - 1)

\* words around the identifiers: short numbers, wrapped and short candidates
SeedExtras ==
    { << >>,
      <<"Year", "2026", "42", "18789", "123456">>,
      <<"/tmp/x.log.", "/a.", "https://example.com/a,", "/tmp/x.log">> }

IdentifiersInit ==
    /\ fn = "extractOpaqueIdentifiers"
    /\ fnArgs \in { [text |-> before \o Repeated("a0b0c0d0", k)
                               \o SubSeq(UniqueTail, 1, m) \o after] :
                        before \in SeedExtras, after \in SeedExtras,
                        k \in 0..MaxRepeats, m \in 0..Len(UniqueTail) }
    /\ fnResult = << >>
    /\ HandlerOff
    /\ MergeOff

ExtractOpaqueIdentifiers ==
    /\ fn = "extractOpaqueIdentifiers"
    /\ fnResult = << >>
    /\ fnResult' = <<extractOpaqueIdentifiers(fnArgs.text)>>
    /\ UNCHANGED <<fn, fnArgs>>
    /\ UNCHANGED <<mergeVars, handlerVars>>

IdentifiersSpec == IdentifiersInit /\ [][ExtractOpaqueIdentifiers]_vars

\* the positions of the text holding a candidate whose sanitized form has four
\* characters or more and occurs at no earlier position
FirstOccurrences(text) ==
    {i \in 1..Len(text) :
        /\ text[i] \in IdentifierTokens
        /\ sanitizeExtractedIdentifier(text[i]) \notin ShorterThanFour
        /\ \A j \in 1..(i - 1) :
              text[j] \in IdentifierTokens =>
                  sanitizeExtractedIdentifier(text[j]) # sanitizeExtractedIdentifier(text[i])}

\* C23: extractOpaqueIdentifiers returns the first 12 distinct sanitized
\* candidates of length >= 4 in order of first occurrence (duplicates are
\* removed before the cap); the output has at most 12 entries, no duplicates,
\* no entry shorter than 4 characters and no bare 4- or 5-digit integer.
C23_FirstTwelveDistinctIdentifiers ==
    (fn = "extractOpaqueIdentifiers" /\ Len(fnResult) = 1) =>
        LET out == fnResult[1]
            first == FirstOccurrences(fnArgs.text)
        IN /\ Len(out) = IF Cardinality(first) < 12 THEN Cardinality(first) ELSE 12
           /\ \A j \in 1..Len(out) :
                 out[j] = sanitizeExtractedIdentifier(fnArgs.text[NthIndex(first, j)])
           /\ \A i, j \in 1..Len(out) : i # j => out[i] # out[j]
           /\ Range(out) \cap (ShorterThanFour \cup {"2026", "18789", "42"}) = {}

\* ten repeats of one identifier before thirteen distinct ones: twelve
\* identifiers, the repeated one and the eleventh of the tail among them
C23_Witness ==
    /\ fn = "extractOpaqueIdentifiers"
    /\ Len(fnResult) = 1
    /\ fnArgs.text = Repeated("a0b0c0d0", 10) \o UniqueTail
    /\ Len(fnResult[1]) = 12
    /\ fnResult[1][1] = "a0b0c0d0"
    /\ fnResult[1][12] = UniqueTail[11]

\* wrapped punctuation stripped, the short path and the short numbers left out
C23_WitnessSanitized ==
    /\ fn = "extractOpaqueIdentifiers"
    /\ Len(fnResult) = 1
    /\ fnResult[1] = <<"123456", "/tmp/x.log", "https://example.com/a">>

----------------------------------------------------------------------------
(* Memory search: searchKeyword *)

MaxRows == 3

\* bm25 ranks of the rows of the FTS table: numbers, and the values that are
\* not finite numbers (NULL, which is how the store holds NaN, and the two
\* infinities)
NullRank == [kind |-> "null", v |-> 0]
NegInfinity == [kind |-> "neginf", v |-> 0]
PosInfinity == [kind |-> "posinf", v |-> 0]
KeywordRanks ==
    {Num(0 - 3), Num(0), Num(1), Num(4), Num(2000), NullRank, NegInfinity, PosInfinity}

\* ORDER BY rank ASC: NULL first, then the numbers from minus to plus infinity
RankAscending(a, b) ==
    CASE a.kind = "null" -> TRUE
      [] b.kind = "null" -> FALSE
      [] a.kind = "neginf" \/ b.kind = "posinf" -> TRUE
      [] a.kind = "posinf" \/ b.kind = "neginf" -> FALSE
      [] OTHER -> a.v <= b.v

\* the raw queries: no word character, one word, two words with punctuation
KeywordQueries == {<< >>, <<"?!">>, <<"explain">>, <<"explain", "?!", "word01">>}

\* the pieces of the model's queries that [A-Za-z0-9_]+ matches
QueryWords == {"explain", "word01"}

\* the words of the query quoted and joined by AND; null when there is none
buildFtsQuery(raw) ==
    LET tokens == SelectTokens(raw, QueryWords)
    IN IF Len(tokens) = 0 THEN None ELSE Some(tokens)

\* a mutant: a rank that is not finite counts as 0
bm25RankToScoreNonFiniteAsZero(rank) ==
    LET normalized == IF rank.kind = "num" THEN Max(0, rank.v) ELSE 0
    IN Fraction(1, 1 + normalized)

bm25RankToScore(rank) ==
    LET normalized == IF rank.kind = "num" THEN Max(0, rank.v) ELSE 999
    IN Fraction(1, 1 + normalized)

\* the matching rows of the store, as ORDER BY rank ASC lists them; a row's
\* position is its id
KeywordInit ==
    /\ fn = "searchKeyword"
    /\ fnArgs \in { a \in [ rows : SeqsUpTo(KeywordRanks, MaxRows),
                            query : KeywordQueries,
                            limit : {0 - 1, 0, 1, 2, 5} ] :
                        \A i, j \in 1..Len(a.rows) :
                            i < j => RankAscending(a.rows[i], a.rows[j]) }
    /\ fnResult = << >>
    /\ HandlerOff
    /\ MergeOff

\* lines 215-250: one call of searchKeyword; queried tells whether the
\* statement was run
SearchKeyword ==
    /\ fn = "searchKeyword"
    /\ fnResult = << >>
    /\ IF fnArgs.limit <= 0
       THEN fnResult' = <<[queried |-> FALSE, results |-> << >>]>>
       ELSE LET ftsQuery == buildFtsQuery(fnArgs.query)
            IN IF ~ftsQuery.some \/ ftsQuery.text = << >>
               THEN fnResult' = <<[queried |-> FALSE, results |-> << >>]>>
               ELSE LET rows == SubSeq(fnArgs.rows, 1, Min(fnArgs.limit, Len(fnArgs.rows)))
                    IN fnResult' =
                         <<[queried |-> TRUE,
                            results |->
                                [i \in 1..Len(rows) |->
                                    [id |-> i,
                                     score |-> bm25RankToScore(rows[i]),
                                     textScore |-> bm25RankToScore(rows[i])]]]>>
    /\ UNCHANGED <<fn, fnArgs>>
    /\ UNCHANGED <<mergeVars, handlerVars>>

KeywordSpec == KeywordInit /\ [][SearchKeyword]_vars

\* 1 / (1 + max(0, rank)), a rank that is not finite taken as 999
ExpectedTextScore(rank) ==
    IF rank.kind # "num" THEN Fraction(1, 1000)
    ELSE IF rank.v <= 0 THEN Fraction(1, 1)
    ELSE Fraction(1, 1 + rank.v)

KeywordScoresAsSpecified(out) ==
    /\ \A i \in 1..Len(out) :
          /\ out[i].score = out[i].textScore
          /\ out[i].textScore = ExpectedTextScore(fnArgs.rows[out[i].id])
          /\ 0 < out[i].textScore.num
          /\ out[i].textScore.num <= out[i].textScore.den
          /\ (fnArgs.rows[out[i].id].kind = "num" /\ fnArgs.rows[out[i].id].v <= 0)
                => out[i].textScore = Fraction(1, 1)

KeywordEmptyWithoutQuery ==
    (fnArgs.limit <= 0 \/ \A i \in 1..Len(fnArgs.query) : fnArgs.query[i] \notin QueryWords)
        => (fnResult[1].results = << >> /\ ~fnResult[1].queried)

C25_WitnessNoQuery ==
    /\ fn = "searchKeyword"
    /\ Len(fnResult) = 1
    /\ fnArgs.limit > 0
    /\ fnArgs.query = <<"?!">>
    /\ fnArgs.rows # << >>
    /\ ~fnResult[1].queried
    /\ fnResult[1].results = << >>

----------------------------------------------------------------------------
(* searchVector: both branches over the same corpus *)

\* a corpus whose vector table holds every chunk, with dist = 1 - similarity
BranchesInit ==
    /\ fn = "searchVectorBranches"
    /\ fnArgs \in { a \in [ chunks : SeqsUpTo(StoredChunks, MaxChunks),
                            limit : {1, 2},
                            recency : Recencies,
                            now : {SearchNow} ] :
                        \A i \in 1..Len(a.chunks) : a.chunks[i].similarity.finite }
    /\ fnResult = << >>
    /\ HandlerOff
    /\ MergeOff

\* the call with ensureVectorReady resolving to true
SearchAccelerated ==
    /\ fn = "searchVectorBranches"
    /\ fnResult = << >>
    /\ \E rows \in VectorRows(fnArgs.chunks, fnArgs.limit) :
          fnResult' = <<AcceleratedResults(rows, fnArgs.now, fnArgs.recency)>>
    /\ UNCHANGED <<fn, fnArgs>>
    /\ UNCHANGED <<mergeVars, handlerVars>>

\* the same call with ensureVectorReady resolving to false
SearchFallback ==
    /\ fn = "searchVectorBranches"
    /\ Len(fnResult) = 1
    /\ fnResult' = Append(fnResult,
                          FallbackResults(listChunks(fnArgs.chunks), fnArgs.limit,
                                          fnArgs.now, fnArgs.recency))
    /\ UNCHANGED <<fn, fnArgs>>
    /\ UNCHANGED <<mergeVars, handlerVars>>

BranchesSpec == BranchesInit /\ [][SearchAccelerated \/ SearchFallback]_vars

\* C26: for the same corpus, limit and recency configuration (dist = 1 -
\* similarity), the accelerated and the fallback branch of searchVector
\* return the same chunk ids in the same order with the same scores, with
\* recency enabled as well as disabled.  Stated for corpora of pairwise
\* distinct similarities: the order of rows at the same distance is not fixed
\* by the index.
C26_BranchesAgree ==
    (/\ fn = "searchVectorBranches"
     /\ Len(fnResult) = 2
     /\ \A i, j \in 1..Len(fnArgs.chunks) :
            i # j => fnArgs.chunks[i].similarity # fnArgs.chunks[j].similarity) =>
        /\ Len(fnResult[1]) = Len(fnResult[2])
        /\ \A i \in 1..Len(fnResult[1]) :
              /\ fnResult[1][i].id = fnResult[2][i].id
              /\ SameNumber(fnResult[1][i].score, fnResult[2][i].score)


\* the instructions the claim gives attempt k: the structured instructions,
\* and from attempt 1 on one suffix naming the reasons of the audit before
ExpectedInstructions(k) ==
    IF k = 0 THEN buildCompactionStructureInstructions(req.customInstructions)
    ELSE buildCompactionStructureInstructions(req.customInstructions)
         \o <<"Previous summary failed quality checks (">>
         \o audits[k].reasons
         \o <<"). Fix all issues and include every required section with exact identifiers preserved.">>

\* C27: attempt 0 of the history summarization uses the structured
\* instructions alone; every later attempt k uses them followed by one repair
\* suffix naming exactly the reasons of the audit of attempt k - 1; suffixes
\* never accumulate, and the prefix summarization of an attempt uses the same
\* instructions after the turn-prefix preamble.
C27_InstructionsPerAttempt ==
    /\ \A i \in CallsOfKind({"history"}) :
          /\ calls[i].attempt > 0 =>
                (Len(audits) >= calls[i].attempt
                    /\ audits[calls[i].attempt].attempt = calls[i].attempt - 1)
          /\ calls[i].customInstructions = ExpectedInstructions(calls[i].attempt)
    /\ \A i \in CallsOfKind({"prefix"}) :
          calls[i].customInstructions =
              TURN_PREFIX_INSTRUCTIONS \o ExpectedInstructions(calls[i].attempt)

\* a prefix summarization in the third attempt, after two audits that failed
\* for different reasons
C27_Witness ==
    /\ Len(audits) >= 2
    /\ audits[1].reasons # audits[2].reasons
    /\ \E i \in CallsOfKind({"prefix"}) : calls[i].attempt = 2
    /\ \E i \in CallsOfKind({"history"}) : calls[i].attempt = 2


\* the dropped-history summarizations that returned a text
DroppedDone == {d \in CallsOfKind({"dropped"}) : calls[d].status = "ok"}

\* C28: every attempt of the history summarization receives the same
\* previous summary: the dropped-history summary when pruning produced one,
\* otherwise the request's previousSummary; the output of a rejected attempt
\* is never passed on as previous summary, and the dropped-history
\* summarization receives the request's previousSummary.  (What is passed is
\* fixed by the first two conjuncts; a rejected output can only equal it by
\* value, as when an empty history is answered with the previous summary.)
C28_SamePreviousSummaryEveryAttempt ==
    /\ \A i \in CallsOfKind({"history"}) :
          /\ \A d \in DroppedDone : calls[i].previousSummary = Some(calls[d].text)
          /\ DroppedDone = {} => calls[i].previousSummary = req.previousSummary
          /\ \A j \in CallsOfKind({"history"}) :
                calls[j].previousSummary = calls[i].previousSummary
    /\ \A d \in CallsOfKind({"dropped"}) : calls[d].previousSummary = req.previousSummary
    /\ Cardinality(CallsOfKind({"dropped"})) <= 1

\* a retry after a rejected attempt, with a dropped-history summary and a
\* previous summary in the request
C28_Witness ==
    /\ DroppedDone # {}
    /\ req.previousSummary.some
    /\ Len(audits) >= 1
    /\ \E i \in CallsOfKind({"history"}) :
          /\ calls[i].attempt = 1
          /\ calls[i].previousSummary.some
          /\ calls[i].previousSummary # req.previousSummary

\* a retry without pruning: the request's previous summary again
C28_WitnessNoPrune ==
    /\ CallsOfKind({"dropped"}) = {}
    /\ req.previousSummary.some
    /\ \E i \in CallsOfKind({"history"}) :
          calls[i].attempt = 1 /\ calls[i].previousSummary = req.previousSummary


SplitTurnWithPrefix == req.isSplitTurn /\ req.turnPrefixMessages # << >>

\* C29: in each attempt a prefix summarization is issued iff isSplitTurn
\* holds and turnPrefixMessages is non-empty; it starts only after the
\* attempt's history summarization has returned, it is given no previous
\* summary, and the attempt's summary is then the history summary, the
\* split-turn separator and the prefix summary; otherwise the attempt's
\* summary is the history summary alone.
C29_PrefixSummarization ==
    /\ \A i \in CallsOfKind({"prefix"}) :
          /\ SplitTurnWithPrefix
          /\ i > 1
          /\ calls[i - 1].kind = "history"
          /\ calls[i - 1].attempt = calls[i].attempt
          /\ calls[i - 1].status = "ok"
          /\ calls[i].messages = req.turnPrefixMessages
          /\ calls[i].previousSummary = None
    /\ \A i \in CallsOfKind({"history"}) :
          (calls[i].status = "ok" /\ SplitTurnWithPrefix) =>
              /\ i < Len(calls)
              /\ calls[i + 1].kind = "prefix"
              /\ calls[i + 1].attempt = calls[i].attempt
    /\ pc = "audit" =>
          LET last == calls[Len(calls)]
          IN IF SplitTurnWithPrefix
             THEN /\ last.kind = "prefix"
                  /\ last.attempt = attempt
                  /\ summary = calls[Len(calls) - 1].text \o SPLIT_TURN_SEPARATOR \o last.text
             ELSE /\ last.kind = "history"
                  /\ last.attempt = attempt
                  /\ summary = last.text

\* the second attempt of a split turn with its prefix summary in, for a
\* request that carries a previous summary
C29_Witness ==
    /\ pc = "audit"
    /\ attempt = 1
    /\ SplitTurnWithPrefix
    /\ req.previousSummary.some
    /\ calls[Len(calls)].kind = "prefix"
    /\ calls[Len(calls)].status = "ok"
    /\ calls[Len(calls) - 1].previousSummary.some

\* a split turn without prefix messages: the history summary alone
C29_WitnessNoPrefix ==
    /\ pc = "audit"
    /\ req.isSplitTurn
    /\ req.turnPrefixMessages = << >>
    /\ CallsOfKind({"prefix"}) = {}
    /\ summary = calls[Len(calls)].text


MaxTokensBefore == 10

\* requests with every token count before compaction, around the budget
PruneRequests ==
    [ hasModel : BOOLEAN,
      messagesToSummarize : SeqsUpTo({MsgUser, MsgAssistant}, MaxMessages),
      turnPrefixMessages : {<< >>, <<MsgUser>>},
      isSplitTurn : {TRUE},
      firstKeptEntryId : {"entry-1"},
      tokensBefore : {NonFinite} \cup {Num(n) : n \in 0..MaxTokensBefore},
      previousSummary : {None},
      customInstructions : {None},
      fileOps : {[read |-> {1, 2}, edited |-> {2}, written |-> {3}]},
      qualityGuardEnabled : {"unset"},
      qualityGuardMaxRetries : {Num(1)},
      recentTurnsPreserve : {Num(0)} ]

PruneInit ==
    /\ pc = "start"
    /\ req \in PruneRequests
    /\ apiKey = "unasked"
    /\ aborted = FALSE
    /\ trippedDuring = "none"
    /\ rt = [resolved |-> FALSE]
    /\ messagesToSummarize = << >>
    /\ droppedSummary = None
    /\ preservedRecentMessages = << >>
    /\ attempt = 0
    /\ currentInstructions = << >>
    /\ summary = << >>
    /\ calls = << >>
    /\ audits = << >>
    /\ artifact = [returned |-> FALSE]
    /\ MergeOff
    /\ HelperOff

PruneSpec == PruneInit /\ [][Next]_vars

\* tokensBefore is a finite number and the new content exceeds
\* floor(contextWindow * maxHistoryShare * SAFETY_MARGIN) = floor(9 * 0.5 * 1.2)
OverHistoryBudget ==
    /\ req.tokensBefore.kind = "num"
    /\ LET summarizable == Len(req.messagesToSummarize) + Len(req.turnPrefixMessages)
           newContentTokens ==
               IF req.tokensBefore.v > summarizable
               THEN req.tokensBefore.v - summarizable ELSE 0
       IN newContentTokens > 5

PastPrune == pc \notin {"start", "getApiKey", "prune", "threw"} /\ rt.resolved

\* C30: the history pruner is invoked only when tokensBefore is a finite
\* number and newContentTokens exceeds floor(contextWindow * maxHistoryShare
\* * SAFETY_MARGIN); when it is not invoked, or reports zero dropped chunks,
\* the list handed to PRESERVE_TAIL is the request's messagesToSummarize
\* unchanged and no dropped-history summarization is issued;
\* turnPrefixMessages is never pruned.
C30_PrunerOnlyOverBudget ==
    /\ \A i \in CallsOfKind({"prune"}) :
          /\ OverHistoryBudget
          /\ i = 1
          /\ calls[i].messages = req.messagesToSummarize
    /\ Cardinality(CallsOfKind({"prune"})) <= 1
    /\ (\A i \in CallsOfKind({"prune"}) : calls[i].status = "kept") =>
          /\ CallsOfKind({"dropped"}) = {}
          /\ pc = "preserve" => messagesToSummarize = req.messagesToSummarize
    /\ \A i \in CallsOfKind({"prefix"}) : calls[i].messages = req.turnPrefixMessages

\* over budget, the pruner invoked and reporting no dropped chunk: the
\* request's list reaches PRESERVE_TAIL
C30_Witness ==
    /\ pc = "preserve"
    /\ OverHistoryBudget
    /\ req.tokensBefore.v - Len(req.messagesToSummarize) - Len(req.turnPrefixMessages) = 6
    /\ CallsOfKind({"prune"}) = {1}
    /\ calls[1].status = "kept"
    /\ req.messagesToSummarize # << >>
    /\ messagesToSummarize = req.messagesToSummarize

\* within budget with a finite tokensBefore: the pruner is not invoked
C30_WitnessWithinBudget ==
    /\ pc = "preserve"
    /\ req.tokensBefore.kind = "num"
    /\ req.tokensBefore.v - Len(req.messagesToSummarize) - Len(req.turnPrefixMessages) = 5
    /\ CallsOfKind({"prune"}) = {}
    /\ messagesToSummarize = req.messagesToSummarize

====
